---------------------------- MODULE Spec2Model ----------------------------
(***************************************************************************)
(* A model of the grid-detection core of the image viewer:                 *)
(*   src/imageviewer/core/content_detection.py  (ContentDetector)          *)
(*                                                                         *)
(* detect_grid is modelled stage by stage, from the segments returned by   *)
(* the probabilistic Hough transform (an external library call) to the     *)
(* result dictionary.  Python floats are modelled as exact rationals       *)
(* <<numerator, denominator>> in lowest terms with a positive denominator; *)
(* where a comparison or a rounding falls exactly on its boundary, the     *)
(* doubles nearest to the rationals decide it as they do in the code.      *)
(***************************************************************************)
EXTENDS Integers, Sequences, FiniteSets, TLC

(***************************************************************************)
(* Exact rational arithmetic.                                              *)
(***************************************************************************)
IAbs(n) == IF n < 0 THEN -n ELSE n

RECURSIVE GCD(_, _)
GCD(a, b) == IF b = 0 THEN a ELSE GCD(b, a % b)

LCM(a, b) == (a \div GCD(a, b)) * b

\* The rational n/d (d > 0) in lowest terms.
Rat(n, d) == LET g == GCD(IAbs(n), d) IN <<n \div g, d \div g>>

RInt(n) == <<n, 1>>

RAdd(p, q) ==
    LET l == LCM(p[2], q[2])
    IN  Rat(p[1] * (l \div p[2]) + q[1] * (l \div q[2]), l)

RSub(p, q) ==
    LET l == LCM(p[2], q[2])
    IN  Rat(p[1] * (l \div p[2]) - q[1] * (l \div q[2]), l)

RMul(p, q) ==
    LET g1 == GCD(IAbs(p[1]), q[2])
        g2 == GCD(IAbs(q[1]), p[2])
    IN  <<(p[1] \div g1) * (q[1] \div g2), (p[2] \div g2) * (q[2] \div g1)>>

\* p / q for q # 0.
RDiv(p, q) ==
    RMul(p, IF q[1] > 0 THEN <<q[2], q[1]>> ELSE <<-q[2], -q[1]>>)

RLt(p, q) ==
    LET l == LCM(p[2], q[2])
    IN  p[1] * (l \div p[2]) < q[1] * (l \div q[2])

RLe(p, q) ==
    LET l == LCM(p[2], q[2])
    IN  p[1] * (l \div p[2]) <= q[1] * (l \div q[2])

RAbs(p) == <<IAbs(p[1]), p[2]>>

\* Python's min(a, b) and max(a, b): the first argument wins a tie.
RMin(p, q) == IF RLt(q, p) THEN q ELSE p
RMax(p, q) == IF RLt(p, q) THEN q ELSE p

\* Python 3's round(x) for a float x: to the nearest integer, a half to the
\* even neighbour.
PyRound(p) ==
    LET f == p[1] \div p[2]
        r == p[1] - f * p[2]
    IN  IF 2 * r < p[2] THEN f
        ELSE IF 2 * r > p[2] THEN f + 1
        ELSE IF f % 2 = 0 THEN f ELSE f + 1

(***************************************************************************)
(* A Python float is an IEEE 754 double.  A rational of the model stands   *)
(* for the double nearest to it; the operators below tell where that       *)
(* double lies, for the comparisons and roundings that fall exactly on a   *)
(* boundary in the rationals and are decided by the last bit in the code.  *)
(***************************************************************************)
\* <<n0, d0>> with n0 / d0 = (n / d) * 2^k in [1, 2), for n, d > 0.
RECURSIVE Normalised(_, _)
Normalised(n, d) ==
    IF n < d THEN Normalised(2 * n, d)
    ELSE IF n >= 2 * d THEN Normalised(n, 2 * d)
    ELSE <<n, d>>

\* Binary long division, 13 bits (a factor of 8192) at a step: after
\* `steps` more steps of x / d (0 <= x < d < 2^18), the remainder and the
\* last bit of the quotient.
RECURSIVE MantissaStep(_, _, _, _)
MantissaStep(x, bit, d, steps) ==
    IF steps = 0 THEN <<x, bit>>
    ELSE MantissaStep((x * 8192) % d, ((x * 8192) \div d) % 2, d, steps - 1)

\* The double nearest to n0 / d0 in [1, 2), given the remainder and the last
\* bit of n0 * 2^52 / d0: the quotient is rounded up when the remainder is
\* more than half of d0, or exactly half and the last bit is odd.  `error`
\* is (x - v) / v in units of 2^-53 for the double x and the rational v it
\* stands for, a rational in [-1, 1] that is 0 when v is a double itself;
\* `even` tells whether the significand of x is even.
RoundedTo(nd, m) ==
    LET up == 2 * m[1] > nd[2] \/ (2 * m[1] = nd[2] /\ m[2] = 1)
    IN  [error |-> Rat(2 * (IF up THEN nd[2] - m[1] ELSE -m[1]), nd[1]),
         even |-> (m[2] = 0) # up]

\* The significand of a double has 52 bits after the leading one, 4 steps
\* of the division.
NearestDouble(nd) == RoundedTo(nd, MantissaStep(nd[1] - nd[2], 1, nd[2], 4))

\* (x - v) / v in units of 2^-53 for a rational v > 0 and the double x
\* nearest to it.
RoundingError(v) == NearestDouble(Normalised(v[1], v[2])).error

\* The double nearest to v > 0 has an even significand.
EvenSignificand(v) == NearestDouble(Normalised(v[1], v[2])).even

\* The result of an operation whose exact value is v * (1 + delta * 2^-53),
\* for the rational v = nd[1] / nd[2] * 2^k and `nearest` the double nearest
\* to v: the result is the double nearest to the exact value, the index-th
\* double above the double nearest to v, a half going to the even
\* significand.  Two doubles next to each other are 2^-52 of the power of
\* two below them apart, half of that below a power of two.
double_index(delta, nd, nearest) ==
    LET halved == nd[1] = nd[2] /\ RLt(delta, nearest.error)
        steps == RMul(RSub(delta, nearest.error),
                      Rat(nd[1], (IF halved THEN 1 ELSE 2) * nd[2]))
        below == (steps[1] - (steps[1] % steps[2])) \div steps[2]
        twice == 2 * steps[1] - 2 * below * steps[2]
    IN  IF twice < steps[2] THEN below
        ELSE IF twice > steps[2] THEN below + 1
        ELSE IF (below % 2 = 0) = nearest.even THEN below
        ELSE below + 1

\* The same result as [index, error]: error is (x - v) / v in units of 2^-53
\* for the double x of the result.
rounded_from(index, nd, nearest) ==
    [index |-> index,
     error |-> RAdd(nearest.error,
                    RMul(RInt(index),
                         Rat((IF nd[1] = nd[2] /\ index < 0 THEN 1 ELSE 2)
                                 * nd[2], nd[1])))]

rounded_near(delta, nd, nearest) ==
    rounded_from(double_index(delta, nd, nearest), nd, nearest)

\* The result for the exact value v * (1 + delta * 2^-53), v > 0.  Each
\* value is drawn from the set of itself, which computes it once.
rounded_result(v, delta) ==
    CHOOSE result \in
        UNION {{rounded_near(d, nd, nearest) :
                   nearest \in {NearestDouble(nd)}} :
                  d \in {delta}, nd \in {Normalised(v[1], v[2])}} : TRUE

\* The decision of within_relative for a value exactly at the boundary,
\* given the three doubles and the significand of tolerance.  x - y is
\* exact there and the quotient, before it is rounded, is off tolerance by
\* (value / reference) * (error of value - error of reference)
\* / (1 + error of reference * 2^-53) units of 2^-53, away from reference;
\* it rounds to t or to its side of t according to where it lies from the
\* midpoint of t and the next double, which is off tolerance by
\* tolerance * (error of tolerance + 1 / significand) above and by
\* tolerance * (error of tolerance - 1 / significand) below.  A quotient at
\* the midpoint rounds to the even significand.
rounds_within(value, reference, tolerance, strict, doubles, significand) ==
    LET error_reference == doubles.reference.error
        double_tolerance == doubles.tolerance
        apart == RSub(doubles.value.error, error_reference)
        off == RMul(RDiv(value, reference),
                    IF RLt(reference, value) THEN apart
                    ELSE <<-apart[1], apart[2]>>)
        half_ulp == IF strict /\ significand[1] = significand[2]
                    THEN Rat(1, 2)
                    ELSE Rat(significand[2], significand[1])
        midpoint ==
            RMul(tolerance,
                 IF strict THEN RSub(double_tolerance.error, half_ulp)
                 ELSE RAdd(double_tolerance.error, half_ulp))
        drift == midpoint[1] * error_reference[1]
    IN  IF off # midpoint THEN RLt(off, midpoint)
        ELSE IF drift # 0 THEN drift > 0
        ELSE double_tolerance.even # strict

\* exact < tolerance, or at exact = tolerance the decision of the doubles.
within_or_rounds_within(exact, value, reference, tolerance, strict) ==
    IF exact # tolerance THEN RLt(exact, tolerance)
    ELSE rounds_within(
             value, reference, tolerance, strict,
             [value |-> NearestDouble(Normalised(value[1], value[2])),
              reference |->
                  NearestDouble(Normalised(reference[1], reference[2])),
              tolerance |->
                  NearestDouble(Normalised(tolerance[1], tolerance[2]))],
             Normalised(tolerance[1], tolerance[2]))

\* abs(x - y) / y <= t (or < t when strict) for the doubles x, y and t
\* nearest to value, reference and tolerance, all positive and tolerance at
\* most 1/2.  The rationals decide unless value lies exactly at
\* reference * (1 + tolerance) or reference * (1 - tolerance).
within_relative(value, reference, tolerance, strict) ==
    within_or_rounds_within(
        RDiv(RAbs(RSub(value, reference)), reference),
        value, reference, tolerance, strict)

\* round(x * k) for the double x nearest to v >= 0 and an integer k > 0:
\* the product p = v * k decides unless it lies halfway between two
\* integers.  There the double product is the double nearest to
\* p * (1 + RoundingError(v) * 2^-53); it is off p by more than half a unit
\* in the last place of p, and so another double than p, when
\* |RoundingError(v)| * significand(p) exceeds 1, and round() then goes to
\* its side.  Otherwise the product is p itself and round() goes to the
\* even neighbour.
round_product(v, k) ==
    LET p == RMul(v, RInt(k))
    IN  IF p[2] # 2 THEN PyRound(p)
        ELSE LET significand == Normalised(p[1], p[2])
                 off == RMul(RoundingError(v),
                             Rat(significand[1], significand[2]))
             IN  IF RLt(RInt(1), off) THEN p[1] \div 2 + 1
                 ELSE IF RLt(off, RInt(-1)) THEN p[1] \div 2
                 ELSE PyRound(p)

\* round(1.0 / x) for the double x nearest to v > 0.  Where p = 1 / v lies
\* halfway between two integers the double quotient is the double nearest
\* to p / (1 + RoundingError(v) * 2^-53), which is just above
\* p * (1 - RoundingError(v) * 2^-53).
round_reciprocal(v) ==
    LET p == <<v[2], v[1]>>
    IN  IF p[2] # 2 THEN PyRound(p)
        ELSE LET significand == Normalised(p[1], p[2])
                 off == RMul(RoundingError(v),
                             Rat(-significand[1], significand[2]))
             IN  IF RLe(RInt(1), off) THEN p[1] \div 2 + 1
                 ELSE IF RLt(off, RInt(-1)) THEN p[1] \div 2
                 ELSE PyRound(p)

\* round(x * k) for the double x nearest to any rational v.
round_times(v, k) ==
    IF v[1] < 0 THEN -round_product(<<-v[1], v[2]>>, k)
    ELSE round_product(v, k)

\* list.sort() / sorted(): insertion of each element into a sorted prefix.
RECURSIVE Insert(_, _)
Insert(v, s) ==
    IF s = <<>> THEN <<v>>
    ELSE IF RLt(v, Head(s)) THEN <<v>> \o s
    ELSE <<Head(s)>> \o Insert(v, Tail(s))

RECURSIVE sorted(_)
sorted(s) == IF s = <<>> THEN <<>> ELSE Insert(Head(s), sorted(Tail(s)))

Last(s) == s[Len(s)]

\* s[first] + ... + s[last].  The sum is exact, so the order of the additions
\* does not change it; halving the range keeps the evaluation shallow.
RECURSIVE sum_between(_, _, _)
sum_between(s, first, last) ==
    IF first > last THEN RInt(0)
    ELSE IF first = last THEN s[first]
    ELSE LET middle == (first + last) \div 2
         IN  RAdd(sum_between(s, first, middle), sum_between(s, middle + 1, last))

RSum(s) == sum_between(s, 1, Len(s))

(***************************************************************************)
(* ContentDetector.__init__: the tunable parameters.  They are attributes  *)
(* of the detector object, read through self by every call.                *)
(***************************************************************************)
VARIABLE detector        \* the attributes of the ContentDetector object

\* The attributes as __init__ sets them, lines 27-46.
ContentDetector ==
    [min_contour_area_fraction |-> Rat(1, 100),
     canny_threshold1 |-> 50,
     canny_threshold2 |-> 150,
     hough_threshold |-> 50,
     hough_min_line_length |-> 50,
     hough_max_line_gap |-> 10,
     angle_tolerance |-> 2,
     spacing_tolerance |-> Rat(2, 10),
     min_lines_for_grid |-> 4,
     standard_grid_sizes |->
         <<Rat(1, 100), Rat(2, 100), Rat(5, 100), Rat(1, 10), Rat(2, 10),
           Rat(25, 100), Rat(5, 10)>>,
     preferred_grid_size |-> Rat(1, 10),
     consistency_weight |-> Rat(4, 10),
     standard_size_weight |-> Rat(4, 10),
     num_lines_weight |-> Rat(2, 10)]

min_contour_area_fraction == detector.min_contour_area_fraction
hough_min_line_length == detector.hough_min_line_length
min_lines_for_grid == detector.min_lines_for_grid
standard_grid_sizes == detector.standard_grid_sizes
preferred_grid_size == detector.preferred_grid_size
consistency_weight == detector.consistency_weight
standard_size_weight == detector.standard_size_weight
num_lines_weight == detector.num_lines_weight

\* The default of _filter_duplicate_lines' tolerance parameter, in pixels.
duplicate_tolerance == 10
\* The tolerance detect_grid passes to _group_similar_values (0.2).
group_tolerance == Rat(2, 10)
\* The number of members a dominant group needs for its spacing to count.
min_group_members == 3

(***************************************************************************)
(* detect_grid, lines 189-215: the classifier.  A segment is a tuple       *)
(* <<x1, y1, x2, y2>> of integer pixel coordinates.                        *)
(***************************************************************************)
\* The partial quotients of the continued fraction of tan(angle_tolerance),
\* angle_tolerance being 2 degrees: tan(2 deg) = 0.03492076949174773...
\* = [0; 28, 1, 1, 1, 2, 1, 74, ...].  Its convergents of 17 and more terms
\* have denominators beyond 2^31, so the terms tell every quotient of two
\* machine integers from tan(2 deg).
tan_tolerance ==
    <<0, 28, 1, 1, 1, 2, 1, 74, 6, 8, 1, 4, 6, 1, 1, 2, 9, 2, 3>>

\* a / b < [tan_tolerance[i]; tan_tolerance[i + 1], ...] for integers a >= 0
\* and b > 0, by Euclid's algorithm on a and b: the first partial quotient
\* that differs decides, and the sense of the comparison flips at each level.
\* The right-hand side is irrational, so a / b is below it when its own
\* expansion ends first with every quotient equal.
RECURSIVE BelowFrom(_, _, _)
BelowFrom(a, b, i) ==
    LET f == a \div b
        r == a % b
    IN  IF f # tan_tolerance[i] THEN f < tan_tolerance[i]
        ELSE IF r = 0 THEN TRUE
        ELSE ~BelowFrom(b, r, i + 1)

\* a / b < tan(angle_tolerance) for integers a >= 0, b > 0: the test
\* abs(degrees(atan2(a, b))) < 2 of line 210.
BelowTanTolerance(a, b) == BelowFrom(a, b, 1)

\* A length test that also skips a segment of exactly the minimum length.
IsShortOrMinimal(seg) ==
    LET dx == IAbs(seg[3] - seg[1])
        dy == IAbs(seg[4] - seg[2])
    IN  /\ dx <= hough_min_line_length
        /\ dy <= hough_min_line_length
        /\ dx * dx + dy * dy <= hough_min_line_length * hough_min_line_length

\* line_length < hough_min_line_length, lines 197-201, where line_length is
\* sqrt(dx^2 + dy^2): a segment with a side of the minimum length or more is
\* not short, the squares are compared for the others.
IsShort(seg) ==
    LET dx == IAbs(seg[3] - seg[1])
        dy == IAbs(seg[4] - seg[2])
    IN  /\ dx < hough_min_line_length
        /\ dy < hough_min_line_length
        /\ dx * dx + dy * dy < hough_min_line_length * hough_min_line_length

\* angle < angle_tolerance or angle > 180 - angle_tolerance, line 210, where
\* angle = |degrees(atan2(dy, dx))| and angle = 90 when dx = 0.
IsHorizontal(seg) ==
    LET dx == seg[3] - seg[1]
        dy == seg[4] - seg[2]
    IN  dx # 0 /\ BelowTanTolerance(IAbs(dy), IAbs(dx))

\* abs(angle - 90) < angle_tolerance, line 213.
IsVertical(seg) ==
    LET dx == seg[3] - seg[1]
        dy == seg[4] - seg[2]
    IN  dx = 0 \/ (dy # 0 /\ BelowTanTolerance(IAbs(dx), IAbs(dy)))

\* The loop of lines 193-215 for the horizontal list: (y1 + y2) / 2 of every
\* segment that is long enough and horizontal, in the order of `lines`.
RECURSIVE classify_horizontal(_)
classify_horizontal(lines) ==
    IF lines = <<>> THEN <<>>
    ELSE LET seg == Head(lines)
             rest == classify_horizontal(Tail(lines))
         IN  IF ~IsShort(seg) /\ IsHorizontal(seg)
             THEN <<Rat(seg[2] + seg[4], 2)>> \o rest
             ELSE rest

\* The same loop for the vertical list: (x1 + x2) / 2 of every segment that
\* is long enough, not horizontal (the elif) and vertical.
RECURSIVE classify_vertical(_)
classify_vertical(lines) ==
    IF lines = <<>> THEN <<>>
    ELSE LET seg == Head(lines)
             rest == classify_vertical(Tail(lines))
         IN  IF ~IsShort(seg) /\ ~IsHorizontal(seg) /\ IsVertical(seg)
             THEN <<Rat(seg[1] + seg[3], 2)>> \o rest
             ELSE rest

(***************************************************************************)
(* _filter_duplicate_lines, lines 355-374.                                 *)
(***************************************************************************)
\* A deduplicator that drops exact repeats only (the tolerance is ignored).
keeps_line_any_later(line, last_kept) == RLt(last_kept, line)

\* A deduplicator that keeps lines from half the tolerance apart.
keeps_line_half_tolerance(line, last_kept) ==
    RLe(Rat(duplicate_tolerance, 2), RSub(line, last_kept))

\* The test of line 371: line - filtered[-1] >= tolerance.
keeps_line(line, last_kept) ==
    RLe(RInt(duplicate_tolerance), RSub(line, last_kept))

RECURSIVE filter_loop(_, _)
filter_loop(filtered, rest) ==
    IF rest = <<>> THEN filtered
    ELSE IF keeps_line(Head(rest), Last(filtered))
         THEN filter_loop(Append(filtered, Head(rest)), Tail(rest))
         ELSE filter_loop(filtered, Tail(rest))

\* A deduplicator that compares each line with the line before it in the
\* input instead of the last line kept.
filter_against_previous(lines) ==
    LET kept == {i \in 1..Len(lines) :
                    i = 1 \/ keeps_line(lines[i], lines[i - 1])}
        pick[i \in 0..Len(lines)] ==
            IF i = 0 THEN <<>>
            ELSE IF i \in kept THEN Append(pick[i - 1], lines[i])
            ELSE pick[i - 1]
    IN  pick[Len(lines)]

filter_duplicate_lines(lines) ==
    IF lines = <<>> THEN <<>> ELSE filter_loop(<<lines[1]>>, Tail(lines))

(***************************************************************************)
(* _calculate_spacings, lines 376-385.                                     *)
(***************************************************************************)
calculate_spacings(lines) ==
    [i \in 1..(Len(lines) - 1) |-> RSub(lines[i + 1], lines[i])]

(***************************************************************************)
(* _group_similar_values, lines 387-423.  The dict, whose iteration order  *)
(* is its insertion order, is a sequence of [rep, members] records.        *)
(***************************************************************************)
\* relative_diff <= tolerance, lines 412-414.
is_similar(value, representative) ==
    within_relative(value, representative, group_tolerance, FALSE)

\* A search that compares value with the latest member of each group instead
\* of the group's representative.
first_group_with_similar_member(groups, value) ==
    LET hits == {i \in 1..Len(groups) :
                    is_similar(value, Last(groups[i].members))}
    IN  IF hits = {} THEN 0
        ELSE CHOOSE i \in hits : \A j \in hits : i <= j

\* The index of the first group whose representative is similar to value,
\* 0 when there is none (the inner loop of lines 410-417).
first_similar_group(groups, value) ==
    LET hits == {i \in 1..Len(groups) : is_similar(value, groups[i].rep)}
    IN  IF hits = {} THEN 0
        ELSE CHOOSE i \in hits : \A j \in hits : i <= j

RECURSIVE group_loop(_, _)
group_loop(groups, rest) ==
    IF rest = <<>> THEN groups
    ELSE LET value == Head(rest)
             i == first_similar_group(groups, value)
         IN  IF i # 0
             THEN group_loop(
                      [groups EXCEPT ![i].members = Append(@, value)],
                      Tail(rest))
             ELSE group_loop(
                      Append(groups, [rep |-> value, members |-> <<value>>]),
                      Tail(rest))

\* A grouping of the distinct values only, as of sorted(set(values)).
group_distinct_values(values) ==
    LET ascending == sorted(values)
        first_of_run == {i \in 1..Len(ascending) :
                            i = 1 \/ ascending[i] # ascending[i - 1]}
        distinct[i \in 0..Len(ascending)] ==
            IF i = 0 THEN <<>>
            ELSE IF i \in first_of_run THEN Append(distinct[i - 1], ascending[i])
            ELSE distinct[i - 1]
    IN  group_loop(<<>>, distinct[Len(ascending)])

group_similar_values(values) ==
    IF values = <<>> THEN <<>> ELSE group_loop(<<>>, sorted(values))

(***************************************************************************)
(* _most_common_value, lines 425-440: max() returns the first key whose    *)
(* group is of maximal length.  None is the empty sequence.                *)
(***************************************************************************)
\* A max() that returns the last key whose group is of maximal length.
last_most_common_value(groups) ==
    IF groups = <<>> THEN <<>>
    ELSE LET best == CHOOSE i \in 1..Len(groups) :
                        /\ \A j \in 1..Len(groups) :
                              Len(groups[j].members) <= Len(groups[i].members)
                        /\ \A j \in (i + 1)..Len(groups) :
                              Len(groups[j].members) < Len(groups[i].members)
         IN  groups[best].rep

most_common_value(groups) ==
    IF groups = <<>> THEN <<>>
    ELSE LET best == CHOOSE i \in 1..Len(groups) :
                        /\ \A j \in 1..Len(groups) :
                              Len(groups[j].members) <= Len(groups[i].members)
                        /\ \A j \in 1..(i - 1) :
                              Len(groups[j].members) < Len(groups[i].members)
         IN  groups[best].rep

\* groups.get(key, []), lines 245 and 248.
groups_get(groups, key) ==
    LET hits == {i \in 1..Len(groups) : groups[i].rep = key}
    IN  IF hits = {} THEN <<>> ELSE groups[CHOOSE i \in hits : TRUE].members

(***************************************************************************)
(* _calculate_consistency, lines 442-465.                                  *)
(***************************************************************************)
\* A consistency whose average error is not capped at 1.
calculate_consistency_uncapped(lines, expected_spacing) ==
    IF Len(lines) < 2 THEN RInt(0)
    ELSE LET gaps == calculate_spacings(lines)
             errors == [i \in 1..Len(gaps) |->
                          RDiv(RAbs(RSub(gaps[i], expected_spacing)),
                               expected_spacing)]
         IN  RSub(RInt(1), RDiv(RSum(errors), RInt(Len(errors))))

calculate_consistency(lines, expected_spacing) ==
    IF Len(lines) < 2 THEN RInt(0)
    ELSE LET spacings == calculate_spacings(lines)
             errors == [i \in 1..Len(spacings) |->
                          RDiv(RAbs(RSub(spacings[i], expected_spacing)),
                               expected_spacing)]
             avg_error == RMin(RInt(1), RDiv(RSum(errors), RInt(Len(errors))))
         IN  RSub(RInt(1), avg_error)

(***************************************************************************)
(* detect_grid, lines 237-254: the pitch candidates.                       *)
(***************************************************************************)
\* A candidate test that is content with a group of two.
is_candidate_of_two(groups, spacing) ==
    Len(groups_get(groups, spacing)) >= min_group_members - 1

\* len(groups.get(spacing, [])) >= 3, lines 245 and 248.
is_candidate(groups, spacing) ==
    Len(groups_get(groups, spacing)) >= min_group_members

candidates(h_grp, h_sp, v_grp, v_sp) ==
    (IF is_candidate(h_grp, h_sp) THEN <<h_sp>> ELSE <<>>)
    \o (IF is_candidate(v_grp, v_sp) THEN <<v_sp>> ELSE <<>>)

\* The first candidate instead of the least.
list_first(s) == s[1]

\* min(grid_candidates), line 254, for a non-empty list.
RECURSIVE list_min(_)
list_min(s) ==
    IF Len(s) = 1 THEN s[1] ELSE RMin(Head(s), list_min(Tail(s)))

(***************************************************************************)
(* detect_grid, lines 256-299: physical size and the three scores.         *)
(***************************************************************************)
raw_size(grid_size_px, width) == RDiv(grid_size_px, RInt(width))

cells(grid_size_px, width) == RDiv(RInt(width), grid_size_px)

relative_distance(raw, std_size) == RDiv(RAbs(RSub(raw, std_size)), std_size)

\* The loop of lines 281-285.
RECURSIVE min_distance_loop(_, _, _)
min_distance_loop(raw, sizes, best) ==
    IF sizes = <<>> THEN best
    ELSE LET distance == relative_distance(raw, Head(sizes))
         IN  IF best = <<>> \/ RLt(distance, best)
             THEN min_distance_loop(raw, Tail(sizes), distance)
             ELSE min_distance_loop(raw, Tail(sizes), best)

\* The standard-size score without its floor of 0.
size_score_unfloored(raw) ==
    LET distance_to_preferred == relative_distance(raw, preferred_grid_size)
    IN  IF RLt(distance_to_preferred, Rat(1, 10))
        THEN RSub(RInt(1), distance_to_preferred)
        ELSE RSub(RInt(1), min_distance_loop(raw, standard_grid_sizes, <<>>))

\* A score that looks at the preferred size alone.
size_score_preferred_only(raw) ==
    RMax(RInt(0), RSub(RInt(1), relative_distance(raw, preferred_grid_size)))

\* Lines 271-288.
size_score(raw) ==
    LET distance_to_preferred == relative_distance(raw, preferred_grid_size)
    IN  IF RLt(distance_to_preferred, Rat(1, 10))
        THEN RSub(RInt(1), distance_to_preferred)
        ELSE RMax(RInt(0),
                  RSub(RInt(1),
                       min_distance_loop(raw, standard_grid_sizes, <<>>)))

\* Line 292.
lines_score(n_horizontal, n_vertical) ==
    RMin(RInt(1), Rat(n_horizontal + n_vertical, 30))

\* A confidence that weighs the three scores equally.
mean_confidence(consistency, standard, num_lines) ==
    RDiv(RAdd(RAdd(consistency, standard), num_lines), RInt(3))

\* Lines 295-299.
weighted_confidence(consistency, standard, num_lines) ==
    RAdd(RAdd(RMul(consistency_weight, consistency),
              RMul(standard_size_weight, standard)),
         RMul(num_lines_weight, num_lines))

(***************************************************************************)
(* detect_grid, lines 301-331: the final grid size.                        *)
(***************************************************************************)
\* abs(a - x) < abs(b - x) for the doubles a, b and x nearest to the
\* positive rationals size, other and raw.  The rationals decide unless raw
\* is halfway between the two sizes; there both differences are exact in
\* doubles (the sizes are within a factor of 3 of each other) and each is
\* off the common distance by the difference of the two rounding errors.
nearer(size, other, raw) ==
    LET distance(a) == RAbs(RSub(a, raw))
        off(a) == RMul(RInt(IF RLt(raw, a) THEN 1 ELSE -1),
                       RSub(RMul(a, RoundingError(a)),
                            RMul(raw, RoundingError(raw))))
    IN  IF distance(size) # distance(other) \/ size = other
        THEN RLt(distance(size), distance(other))
        ELSE RLt(off(size), off(other))

\* min(self.standard_grid_sizes, key=lambda x: abs(x - raw)), line 320: the
\* first size at the least absolute distance.
RECURSIVE closest_loop(_, _, _)
closest_loop(raw, sizes, best) ==
    IF sizes = <<>> THEN best
    ELSE IF nearer(Head(sizes), best, raw)
         THEN closest_loop(raw, Tail(sizes), Head(sizes))
         ELSE closest_loop(raw, Tail(sizes), best)

\* The closest standard size by relative instead of absolute distance.
closest_by_relative_distance(raw) ==
    CHOOSE s \in {standard_grid_sizes[i] : i \in 1..Len(standard_grid_sizes)} :
        \A i \in 1..Len(standard_grid_sizes) :
            LET t == standard_grid_sizes[i]
            IN  \/ RLt(relative_distance(raw, s), relative_distance(raw, t))
                \/ /\ relative_distance(raw, s) = relative_distance(raw, t)
                   /\ RLe(s, t)

closest_standard_size(raw) ==
    closest_loop(raw, Tail(standard_grid_sizes), Head(standard_grid_sizes))

\* abs(raw - closest_std_size) / closest_std_size < 0.15, line 323.  Of the
\* raw sizes exactly 15% from their closest standard size, the double
\* quotient comes out below the double 0.15 (0.1499999999999999...) at
\* 0.0085, 0.0115, 0.017, 0.023, 0.2875 and 0.575 and not at the others.
within_15_percent(raw, closest_std_size) ==
    within_relative(raw, closest_std_size, Rat(15, 100), TRUE)

\* Lines 318-328: the branch taken when no cells_across range matches.
nearest_or_rounded(raw) ==
    LET closest_std_size == closest_standard_size(raw)
    IN  IF \E closest \in {closest_std_size} : within_15_percent(raw, closest)
        THEN closest_std_size
        ELSE Rat(round_times(raw, 100), 100)

\* A clamp that forgets the upper end of the range.
clamp_size_from_below(size) == RMax(Rat(1, 100), size)

\* Line 331.
clamp_size(size) == RMax(Rat(1, 100), RMin(Rat(5, 10), size))

\* A cascade whose forced branches leave the confidence as it was.
final_size_confidence_kept(cells_across, raw, confidence) ==
    LET between(lo, hi) == RLe(lo, cells_across) /\ RLe(cells_across, hi)
        size ==
            IF between(RInt(9), RInt(11)) THEN Rat(1, 10)
            ELSE IF between(RInt(19), RInt(21)) THEN Rat(5, 100)
            ELSE IF between(Rat(45, 10), Rat(55, 10)) THEN Rat(2, 10)
            ELSE nearest_or_rounded(raw)
    IN  [size |-> clamp_size(size), confidence |-> confidence]

\* Lines 302-331: the cascade, then the clamp.
final_size(cells_across, raw, confidence) ==
    LET between(lo, hi) == RLe(lo, cells_across) /\ RLe(cells_across, hi)
        chosen ==
            IF between(RInt(9), RInt(11))
            THEN [size |-> Rat(1, 10),
                  confidence |-> RMax(confidence, Rat(9, 10))]
            ELSE IF between(RInt(19), RInt(21))
            THEN [size |-> Rat(5, 100),
                  confidence |-> RMax(confidence, Rat(85, 100))]
            ELSE IF between(Rat(45, 10), Rat(55, 10))
            THEN [size |-> Rat(2, 10),
                  confidence |-> RMax(confidence, Rat(85, 100))]
            ELSE [size |-> nearest_or_rounded(raw),
                  confidence |-> confidence]
    IN  [size |-> clamp_size(chosen.size), confidence |-> chosen.confidence]

(***************************************************************************)
(* The images.  An image is its pixel width and height and the segments    *)
(* the Hough transform (lines 177-184) finds in it: on each axis, lines    *)
(* ruled at the running sums of a sequence of gaps.                        *)
(***************************************************************************)
\* The most lines ruled along the horizontal and the vertical axis.
MaxHorizontal == 5
MaxVertical == 4

HorizontalGaps == {RInt(5), RInt(57)}
VerticalGaps == {Rat(25, 2), RInt(23)}
Widths == {56, 75, 80, 100, 130, 260, 2600}
Heights == {240}
\* The PIL modes of the ruled images.
RuledModes == {"RGB"}

(***************************************************************************)
(* Lines 66-79 and 137-150: the conversion to OpenCV format, by PIL mode.  *)
(***************************************************************************)
Modes == {"L", "LA", "RGB", "RGBA", "1", "F"}

\* img_np.shape[2] of np.array(image); 0 stands for a two-dimensional array.
channels(mode) ==
    CASE mode = "LA" -> 2
      [] mode = "RGB" -> 3
      [] mode = "RGBA" -> 4
      [] OTHER -> 0

\* img_np.dtype of np.array(image).
dtype(mode) ==
    CASE mode = "1" -> "bool"
      [] mode = "F" -> "float32"
      [] OTHER -> "uint8"

\* The text of the exception the conversion raises, "" when it raises none:
\* cv2.cvtColor with COLOR_RGB2BGR (lines 71, 142) refuses an array of two
\* channels.
conversion_error(mode) ==
    IF channels(mode) \notin {0, 3, 4} THEN "cvtColor: bad number of channels"
    ELSE ""

\* The text of the exception the preprocessing of detect_grid raises, lines
\* 157-167: cv2.GaussianBlur refuses a boolean array and cv2.adaptiveThreshold
\* any array that is not 8-bit.
preprocessing_error(mode) ==
    CASE dtype(mode) = "bool" -> "GaussianBlur: unsupported data type"
      [] dtype(mode) = "float32" -> "adaptiveThreshold: not an 8-bit image"
      [] OTHER -> ""

\* The text of the first exception raised in lines 137-184.
detect_grid_error(mode) ==
    IF conversion_error(mode) # "" THEN conversion_error(mode)
    ELSE preprocessing_error(mode)

\* The positions of at most n lines: none, or a first line at 0 and each
\* further line one of the gaps after the line before it.
RECURSIVE Rulings(_, _)
Rulings(gaps, n) ==
    IF n = 0 THEN {<<>>}
    ELSE IF n = 1 THEN {<<>>, <<RInt(0)>>}
    ELSE LET shorter == Rulings(gaps, n - 1)
         IN  shorter \cup
             {Append(s, RAdd(Last(s), g)) :
                 s \in {t \in shorter : Len(t) = n - 1}, g \in gaps}

\* A densely ruled axis: 16 lines, 12 pixels apart.
DenseRuling == [i \in 1..16 |-> RInt(12 * (i - 1))]

\* An unevenly ruled axis: its dominant spacing, 10, has two members and
\* the other spacings are 5 and 10 times as long.
UnevenRuling == <<RInt(0), RInt(10), RInt(20), RInt(70), RInt(170)>>

Floor(p) == p[1] \div p[2]

\* The segment found for a line ruled across the image at height p: along
\* the row p, or one pixel down over the width when p is a half.
HSegment(p, width) ==
    IF p[2] = 1 THEN <<0, p[1], width - 1, p[1]>>
    ELSE <<0, Floor(p), width - 1, Floor(p) + 1>>

VSegment(p, height) ==
    IF p[2] = 1 THEN <<p[1], 0, p[1], height - 1>>
    ELSE <<Floor(p), 0, Floor(p) + 1, height - 1>>

Reverse(s) == [i \in 1..Len(s) |-> s[Len(s) + 1 - i]]

\* The Hough transform's output; it lists segments in no particular order.
Segments(width, height, ys, xs) ==
    Reverse([i \in 1..Len(ys) |-> HSegment(ys[i], width)])
    \o [i \in 1..Len(xs) |-> VSegment(xs[i], height)]

Fits(positions, size) ==
    \A i \in 1..Len(positions) : RLe(positions[i], RInt(size - 1))

(***************************************************************************)
(* detect_content, lines 48-113.  Its image is a background of one gray    *)
(* level with rectangular blobs of one other level (the ink) on it: the    *)
(* blobs do not touch each other or the border of the image.  A blob and a *)
(* contour are records [x, y, w, h] of pixel rectangles.                   *)
(***************************************************************************)
\* The most blobs on an image.
MaxBlobs == 2

ContentModes == {"L", "RGBA"}
ContentSizes == {<<10, 10>>, <<10, 20>>}
Backgrounds == {0, 100, 255}
Inks == {0, 255}
BlobRects ==
    {[x |-> x, y |-> y, w |-> w, h |-> h] :
        x \in {1, 5}, y \in {1, 5}, w \in {2, 3}, h \in {2, 3}}

Apart(a, b) ==
    \/ a.x + a.w < b.x
    \/ b.x + b.w < a.x
    \/ a.y + a.h < b.y
    \/ b.y + b.h < a.y

Inside(blob, width, height) ==
    /\ blob.x >= 1
    /\ blob.y >= 1
    /\ blob.x + blob.w <= width - 1
    /\ blob.y + blob.h <= height - 1

BlobSets(width, height) ==
    {blobs \in SUBSET BlobRects :
        /\ Cardinality(blobs) <= MaxBlobs
        /\ \A a \in blobs : Inside(a, width, height)
        /\ \A a \in blobs, b \in blobs : a # b => Apart(a, b)}

\* The gray levels present in the image (the conversions of lines 66-79
\* keep the level of a gray pixel).
gray_levels(img) ==
    {img.background} \cup (IF img.blobs = {} THEN {} ELSE {img.ink})

\* np.mean(gray).
mean_intensity(img) ==
    LET area == img.width * img.height
        inked == IF img.blobs = {} THEN 0
                 ELSE LET covered ==
                              {<<px, py>> \in (0..(img.width - 1))
                                               \X (0..(img.height - 1)) :
                                  \E b \in img.blobs :
                                      /\ b.x <= px /\ px < b.x + b.w
                                      /\ b.y <= py /\ py < b.y + b.h}
                      IN  Cardinality(covered)
    IN  Rat(img.background * (area - inked) + img.ink * inked, area)

\* The threshold Otsu's method finds for an image of at most two gray
\* levels: the lower level, below which no pixel lies, and 0 for a uniform
\* image, where no threshold separates two classes.
otsu_threshold(levels) ==
    IF Cardinality(levels) < 2 THEN 0
    ELSE CHOOSE lo \in levels : \A l \in levels : lo <= l

\* A direction taken from the mean intensity: inverted for a light image,
\* direct for a dark one.
threshold_type_by_mean(img) ==
    IF RLt(Rat(255, 2), mean_intensity(img)) THEN "THRESH_BINARY_INV"
    ELSE "THRESH_BINARY"

\* The type flag of line 82: THRESH_BINARY_INV + THRESH_OTSU, whatever the
\* image.
threshold_type(img) == "THRESH_BINARY_INV"

\* What cv2.threshold (maxval 255) makes of a pixel of the given level.
binarize(type, thresh, level) ==
    IF type = "THRESH_BINARY_INV"
    THEN (IF level > thresh THEN 0 ELSE 255)
    ELSE (IF level > thresh THEN 255 ELSE 0)

\* Line 82: the binary image, as the values of its background and its blobs.
threshold(img) ==
    LET type == threshold_type(img)
        thresh == otsu_threshold(gray_levels(img))
    IN  [type |-> type,
         thresh |-> thresh,
         background |-> binarize(type, thresh, img.background),
         ink |-> binarize(type, thresh, img.ink)]

\* Line 85: the external contours of the white regions.  A white background
\* is one region whose outer border is the frame of the image, its blobs,
\* white or black, lying inside; on a black background each white blob is a
\* region of its own.
find_contours(img, bin) ==
    IF bin.background = 255
    THEN {[x |-> 0, y |-> 0, w |-> img.width, h |-> img.height]}
    ELSE IF bin.ink = 255 THEN img.blobs
    ELSE {}

\* cv2.contourArea of the contour of a w by h rectangle of pixels: the area
\* of the polygon through the centres of its corner pixels.
contourArea(cnt) == (cnt.w - 1) * (cnt.h - 1)

\* A filter that keeps a contour of exactly the minimal area.
is_significant_from_minimum(cnt, img_area) ==
    RLe(RMul(RInt(img_area), min_contour_area_fraction),
        RInt(contourArea(cnt)))

\* cv2.contourArea(cnt) > min_contour_area, lines 91-93.
is_significant(cnt, img_area) ==
    RLt(RMul(RInt(img_area), min_contour_area_fraction),
        RInt(contourArea(cnt)))

\* Lines 99-107: min and max from float('inf') and 0 over the bounding
\* rectangles, which for these contours are the contours themselves.
SetMin(numbers) == CHOOSE n \in numbers : \A o \in numbers : n <= o
SetMax(numbers) == CHOOSE n \in numbers : \A o \in numbers : o <= n

bounding_box(cnts) ==
    <<RInt(SetMin({c.x : c \in cnts})),
      RInt(SetMin({c.y : c \in cnts})),
      RInt(SetMax({0} \cup {c.x + c.w : c \in cnts})),
      RInt(SetMax({0} \cup {c.y + c.h : c \in cnts}))>>

\* A fallback box whose far corner is the size itself.
dummy_box_to_far_corner(width, height) ==
    <<RMul(RInt(width), Rat(1, 10)), RMul(RInt(height), Rat(1, 10)),
      RInt(width), RInt(height)>>

\* Lines 59-62: the box of the fallback without OpenCV.
dummy_box(width, height) ==
    LET margin_x == RMul(RInt(width), Rat(1, 10))
        margin_y == RMul(RInt(height), Rat(1, 10))
    IN  <<margin_x, margin_y,
          RSub(RInt(width), margin_x), RSub(RInt(height), margin_y)>>

\* The text of the exception cv2.threshold raises with THRESH_OTSU, line 82:
\* it takes 8-bit arrays only.
threshold_error(mode) ==
    IF dtype(mode) # "uint8" THEN "threshold: not an 8-bit image" ELSE ""

\* The text of the first exception raised in lines 66-85.
detect_content_error(mode) ==
    IF conversion_error(mode) # "" THEN conversion_error(mode)
    ELSE threshold_error(mode)

(***************************************************************************)
(* The state: one detect_grid call at a time, by stage.                    *)
(***************************************************************************)
VARIABLES
    called_before,       \* history: a call on this detector has returned
    cv2,                 \* the module global: "cv2" when the import at lines
                         \* 12-16 succeeded, "None" when it failed
    pc,                  \* "idle"; the stage of the call in progress; or
                         \* where it returned: "done" (lines 187-347),
                         \* "unavailable" (line 133), "caught" (line 353)
    image,               \* [mode, width, height, lines]: the PIL mode,
                         \* gray.shape and the result of cv2.HoughLinesP;
                         \* lines = <<>> stands for None
    horizontal_lines,    \* sorted y-positions
    vertical_lines,      \* sorted x-positions
    filtered_horizontal,
    filtered_vertical,
    h_spacings,
    v_spacings,
    h_groups,
    v_groups,
    horizontal_spacing,
    vertical_spacing,
    grid_candidates,
    result,              \* the returned dictionary
    exception,           \* the text of the exception raised in the call,
                         \* "" when none was
    content_image,       \* the image argument of detect_content:
                         \* [mode, width, height, background, ink, blobs]
    binary,              \* the thresholded image of line 82
    contours,            \* the set of external contours of line 85
    significant_contours,
    box,                 \* what detect_content returned; <<>> stands for None
    spacings,            \* the argument of a direct _group_similar_values call
    grouped,             \* what that call returned
    most_common          \* _most_common_value of the returned groups

(***************************************************************************)
(* GridService (grid_service.py): the grid size and visibility kept for    *)
(* the viewer.  Every method is a single synchronous call.                 *)
(***************************************************************************)
VARIABLES
    grid_service,        \* the attributes of the GridService object
    operation,           \* the method called last, "" before any call
    size_m,              \* its argument; <<>> for a method without one
    returned,            \* what it returned; <<>> when it raised or before
                         \* any call
    raised               \* the exception it raised, "" when it returned

\* __init__, lines 10-19.
GridService ==
    [grid_size |-> Rat(1, 10),
     show_grid |-> FALSE,
     standard_grid_sizes |->
         <<Rat(1, 100), Rat(2, 100), Rat(5, 100), Rat(1, 10), Rat(2, 10),
           Rat(25, 100), Rat(5, 10)>>,
     preferred_grid_size |-> Rat(1, 10)]

\* float('inf'), and every float whose hundredfold is inf.
Infinity == <<1, 0>>

is_finite(size) == size[2] # 0

\* Line 27.
toggle_grid(self) == [self EXCEPT !.show_grid = ~self.show_grid]

\* Line 41: 0.095 <= size_m <= 0.105.
in_preferred_range(size) ==
    /\ is_finite(size)
    /\ RLe(Rat(95, 1000), size)
    /\ RLe(size, Rat(105, 1000))

\* Line 47, abs(size_m - std_size) / std_size in doubles: which double next
\* to the rational distance the quotient is.  The difference of the doubles
\* for size_m and std_size is rounded, then its quotient by the double for
\* std_size; each double is off its rational by its rounding error.
distance_index(size, std_size) ==
    LET difference == RAbs(RSub(size, std_size))
        error_size ==
            IF size[1] = 0 THEN RInt(0) ELSE RoundingError(RAbs(size))
        error_std == RoundingError(std_size)
        off == RDiv(RSub(RMul(size, error_size), RMul(std_size, error_std)),
                    RSub(size, std_size))
    IN  IF difference[1] = 0 THEN 0
        ELSE rounded_result(
                 RDiv(difference, std_size),
                 RSub(rounded_result(difference, off).error, error_std)).index

\* The distance as <<numerator, denominator, index>>: the double that is
\* the index-th above the double nearest to the rational.
double_distance(size, std_size) ==
    LET distance == relative_distance(size, std_size)
    IN  <<distance[1], distance[2], distance_index(size, std_size)>>

\* Lines 47-48: the (relative distance, standard size) pairs, in the order
\* of the table.
relative_distances(self, size) ==
    [i \in 1..Len(self.standard_grid_sizes) |->
        <<double_distance(size, self.standard_grid_sizes[i]),
          self.standard_grid_sizes[i]>>]

\* a < b for two distances.
distance_less(a, b) ==
    RLt(a, b) \/ (a[1] = b[1] /\ a[2] = b[2] /\ a[3] < b[3])

\* The order of Python tuples: by the first component, then by the second.
tuple_less(p, q) ==
    \/ distance_less(p[1], q[1])
    \/ p[1] = q[1] /\ RLt(p[2], q[2])

\* The first pair of a list that was not sorted.
first_unsorted(pairs) == pairs[1]

\* Lines 51 and 54: relative_distances.sort() and relative_distances[0], the
\* least pair in the order of tuples.
first_after_sort(pairs) ==
    CHOOSE p \in
        UNION {{least \in listed :
                   \A q \in listed : least = q \/ tuple_less(least, q)} :
                  listed \in {{pairs[i] : i \in 1..Len(pairs)}}} : TRUE

\* Line 55: closest_distance <= 0.15, closest_distance being
\* abs(size_m - std_size) / std_size of the closest size, line 47.  The
\* decimal sizes 15% from their closest standard size are not doubles.  The
\* double for 0.425 is 0.42499999999999998889..., further than 15% from
\* 0.5, and the quotient comes out as 0.15000000000000002; the doubles for
\* the others (0.0085, 0.0115, 0.017, 0.023, 0.0425, 0.0575, 0.085, 0.115,
\* 0.17, 0.2875, 0.575) lie within 15% of theirs and the quotient is 0.15 or
\* 0.1499999999999999....
at_most_15_percent(size, closest_size) ==
    within_relative(size, closest_size, Rat(15, 100), FALSE)

\* A clamp that forgets the lower end of the range.
clamp_grid_size_from_above(size) == RMin(Rat(5, 10), size)

\* Line 62: max(0.01, min(0.5, size_m)).
clamp_grid_size(size) == RMax(Rat(1, 100), RMin(Rat(5, 10), size))

\* Line 59 raises OverflowError when size_m * 100 is inf: round() cannot
\* convert it to an integer.  Lines 41-55 raise nothing.
set_grid_size_raises(self, size) == ~is_finite(size)

\* Lines 41-62: the grid size stored for a size that does not raise.
set_grid_size(self, size) ==
    IF in_preferred_range(size) THEN self.preferred_grid_size
    ELSE LET closest == first_after_sort(relative_distances(self, size))
             stored[closest_size \in
                        {self.standard_grid_sizes[i] :
                            i \in 1..Len(self.standard_grid_sizes)}] ==
                 clamp_grid_size(
                     IF at_most_15_percent(size, closest_size)
                     THEN closest_size
                     ELSE Rat(round_times(size, 100), 100))
         IN  stored[closest[2]]

\* Line 80: int(round(1.0 / self.grid_size)), for a grid size other than 0.
get_cells_per_meter(self) == round_reciprocal(self.grid_size)

\* Lines 92-95.
is_standard_grid_size(self, size) ==
    /\ is_finite(size)
    /\ \E i \in 1..Len(self.standard_grid_sizes) :
           within_relative(size, self.standard_grid_sizes[i], Rat(1, 100),
                           TRUE)

(***************************************************************************)
(* ImageHandler (image_handler.py): the images of a folder and the         *)
(* physical size of the current one.  Every method is a single synchronous *)
(* call.  None is "None" for a path and NoImageOpen for an image.          *)
(***************************************************************************)
VARIABLES
    image_handler,       \* the attributes of the ImageHandler object
    handler_call         \* [operation, argument, returned, raised]: the
                         \* method called last, its argument (<<>> without
                         \* one), what it returned and what it raised

handler_vars == <<image_handler, handler_call>>

\* A PIL image: the path it was opened from and its size (width, height).
NoImageOpen == [path |-> "None", size |-> <<0, 0>>]

\* __init__, lines 14-27.
ImageHandler ==
    [current_image_path |-> "None",
     current_pil_image |-> NoImageOpen,
     current_display_image |-> "None",
     image_list |-> <<>>,
     current_index |-> -1,
     image_width_m |-> RInt(1),
     image_height_m |-> RInt(1),
     zoom_factor |-> RInt(1)]

\* float('nan').
NaN == <<0, 0>>

\* The file system.  A directory entry is [name, ext, is_file, size]: the
\* file name up to its extension, the extension, os.path.isfile and the
\* size of the image in the file, <<>> when Image.open cannot read it.
File(name, ext, size) ==
    [name |-> name, ext |-> ext, is_file |-> TRUE, size |-> size]
Folder(name, ext) ==
    [name |-> name, ext |-> ext, is_file |-> FALSE, size |-> <<>>]

Directories == {"plans", "scans", "broken", "docs", "empty", "upper"}

\* os.listdir(directory), in the order the file system gives the entries.
listdir(directory) ==
    CASE directory = "plans" ->
             <<File("site", ".jpg", <<200, 100>>),
               File("Plan", ".PNG", <<100, 125>>),
               File("notes", ".txt", <<>>),
               Folder("old", ".png")>>
      [] directory = "scans" -> <<File("thin", ".gif", <<1000, 10>>)>>
      [] directory = "broken" ->
             <<File("b", ".png", <<100, 100>>), File("a", ".bmp", <<>>)>>
      [] directory = "docs" ->
             <<File("readme", ".txt", <<>>), Folder("archive", ".tiff")>>
      [] directory = "empty" -> <<>>
      [] directory = "upper" ->
             <<File("v", ".BMP", <<10, 20>>),
               File("s", ".TXT", <<>>),
               File("t", ".PnG", <<10, 10>>),
               File("x", ".JPG", <<10, 20>>),
               File("z", ".TIFF", <<10, 10>>),
               File("y", ".Jpeg", <<10, 20>>),
               File("w", ".GIF", <<10, 10>>)>>

\* os.path.isdir(directory).
isdir(directory) == directory \in Directories

\* os.path.join(directory, f).
join(directory, entry) == directory \o "/" \o entry.name \o entry.ext

\* Line 42.
image_extensions == {".png", ".jpg", ".jpeg", ".bmp", ".gif", ".tiff"}

\* The letters str.lower() changes in an ASCII file name, and what it makes
\* of them.
ascii_uppercase == "ABCDEFGHIJKLMNOPQRSTUVWXYZ"
ascii_lowercase == "abcdefghijklmnopqrstuvwxyz"

\* str.lower() of a single character.
lower_character(c) ==
    LET hits == {i \in 1..Len(ascii_uppercase) :
                    SubSeq(ascii_uppercase, i, i) = c}
    IN  IF hits = {} THEN c
        ELSE LET i == CHOOSE i \in hits : TRUE IN SubSeq(ascii_lowercase, i, i)

\* str.lower(): every upper-case letter of the string lowered.
lower(f) ==
    LET lowered[i \in 0..Len(f)] ==
            IF i = 0 THEN ""
            ELSE lowered[i - 1] \o lower_character(SubSeq(f, i, i))
    IN  lowered[Len(f)]

\* str.endswith() of a tuple of suffixes.
endswith(f, suffixes) ==
    \E suffix \in suffixes :
        /\ Len(suffix) <= Len(f)
        /\ SubSeq(f, Len(f) - Len(suffix) + 1, Len(f)) = suffix

\* Line 46: the test of the list comprehension, on the file name f.
is_image_file(entry) ==
    /\ endswith(lower(entry.name \o entry.ext), image_extensions)
    /\ entry.is_file

\* Lines 44-47: the paths of the image files, in listing order.
image_paths(directory) ==
    LET entries == listdir(directory)
        keep[i \in 0..Len(entries)] ==
            IF i = 0 THEN <<>>
            ELSE IF is_image_file(entries[i])
                 THEN Append(keep[i - 1], join(directory, entries[i]))
                 ELSE keep[i - 1]
    IN  keep[Len(entries)]

\* Every path of the file system in the order of str comparison (by code
\* point: upper case before lower case).
PathOrder ==
    <<"broken/a.bmp", "broken/b.png", "docs/archive.tiff",
      "docs/readme.txt", "plans/Plan.PNG", "plans/notes.txt",
      "plans/old.png", "plans/site.jpg", "scans/thin.gif", "upper/s.TXT",
      "upper/t.PnG", "upper/v.BMP", "upper/w.GIF", "upper/x.JPG",
      "upper/y.Jpeg", "upper/z.TIFF">>

\* list.sort() of a list of distinct paths, line 50.
sort_paths(paths) ==
    LET listed(path) == \E i \in 1..Len(paths) : paths[i] = path
    IN  SelectSeq(PathOrder, listed)

\* Image.open(path): the image, or NoImageOpen when it raises.
open(path) ==
    LET hits == {e \in UNION {{[directory |-> d, entry |-> listdir(d)[i]] :
                                  i \in 1..Len(listdir(d))} :
                                 d \in Directories} :
                    join(e.directory, e.entry) = path}
        file == (CHOOSE e \in hits : TRUE).entry
    IN  IF hits = {} THEN NoImageOpen
        ELSE IF file.is_file /\ file.size # <<>>
             THEN [path |-> path, size |-> file.size]
             ELSE NoImageOpen

\* A height calculation that leaves out the minimum of line 99.
calculate_image_height_rounded_only(self) ==
    IF self.current_pil_image = NoImageOpen THEN self
    ELSE LET width == self.current_pil_image.size[1]
             height == self.current_pil_image.size[2]
             aspect_ratio == Rat(height, width)
             raw_height_m == RMul(self.image_width_m, aspect_ratio)
         IN  [self EXCEPT
                 !.image_height_m =
                     Rat(round_times(raw_height_m, 10), 10)]

\* _calculate_image_height, lines 86-99.
calculate_image_height(self) ==
    IF self.current_pil_image = NoImageOpen THEN self
    ELSE LET width == self.current_pil_image.size[1]
             height == self.current_pil_image.size[2]
             aspect_ratio == Rat(height, width)
             raw_height_m == RMul(self.image_width_m, aspect_ratio)
             rounded == Rat(round_times(raw_height_m, 10), 10)
         IN  [self EXCEPT !.image_height_m = RMax(Rat(1, 10), rounded)]

\* load_current_image, lines 60-84: the handler afterwards and the value
\* returned.  Python indexes image_list from 0.
load_current_image(self) ==
    IF self.image_list = <<>>
       \/ ~(0 <= self.current_index
            /\ self.current_index < Len(self.image_list))
    THEN [self |-> self, returned |-> FALSE]
    ELSE LET path == self.image_list[self.current_index + 1]
             set == [self EXCEPT !.current_image_path = path]
             opened == open(path)
         IN  IF opened = NoImageOpen
             THEN [self |-> set, returned |-> FALSE]
             ELSE [self |->
                       [calculate_image_height(
                            [set EXCEPT !.current_pil_image = opened])
                           EXCEPT !.zoom_factor = RInt(1)],
                   returned |-> TRUE]

\* load_folder, lines 29-58.
load_folder(self, directory) ==
    IF ~isdir(directory) THEN [self |-> self, returned |-> FALSE]
    ELSE LET paths == sort_paths(image_paths(directory))
             listed == [self EXCEPT !.image_list = paths]
         IN  IF paths # <<>>
             THEN load_current_image([listed EXCEPT !.current_index = 0])
             ELSE [self |-> [listed EXCEPT !.current_index = -1],
                   returned |-> FALSE]

\* Line 111: max(0.1, height_m); a comparison with nan is false, so the
\* first argument stays.
validated_height(height) ==
    IF is_finite(height) THEN RMax(Rat(1, 10), height)
    ELSE IF height = Infinity THEN Infinity
    ELSE Rat(1, 10)

\* Line 114: round() of an infinite float raises OverflowError.
set_image_height_raises(height) == ~is_finite(validated_height(height))

\* set_image_height, lines 101-114, for a height that does not raise.
set_image_height(self, height) ==
    [self EXCEPT
        !.image_height_m =
            Rat(round_times(validated_height(height), 10), 10)]

detect_grid_vars ==
    <<image, horizontal_lines, vertical_lines, filtered_horizontal,
      filtered_vertical, h_spacings, v_spacings, h_groups, v_groups,
      horizontal_spacing, vertical_spacing, grid_candidates, result>>

detect_content_vars ==
    <<content_image, binary, contours, significant_contours, box>>

grouping_vars == <<spacings, grouped, most_common>>
service_vars == <<grid_service, operation, size_m, returned, raised>>

\* What no stage of detect_grid assigns.
outside_detect_grid ==
    <<detector, cv2, called_before, exception, detect_content_vars,
      grouping_vars, service_vars, handler_vars>>

\* What no stage of detect_content assigns.
outside_detect_content ==
    <<detector, cv2, called_before, exception, detect_grid_vars,
      grouping_vars, service_vars, handler_vars>>

vars == <<detector, cv2, called_before, pc, exception, detect_grid_vars,
          detect_content_vars, grouping_vars, service_vars, handler_vars>>

classified == <<horizontal_lines, vertical_lines>>
filtered == <<filtered_horizontal, filtered_vertical>>
estimated == <<h_spacings, v_spacings, h_groups, v_groups,
               horizontal_spacing, vertical_spacing, grid_candidates>>

NoResult == [detected |-> FALSE, reason |-> ""]
Failure(reason) == [detected |-> FALSE, reason |-> reason]
NoImage == [mode |-> "", width |-> 0, height |-> 0, lines |-> <<>>]
NoContentImage ==
    [mode |-> "", width |-> 0, height |-> 0, background |-> 0, ink |-> 0,
     blobs |-> {}]
NoBinary == [type |-> "", thresh |-> 0, background |-> 0, ink |-> 0]

\* No detect_content call is in progress or has returned.
NoContentCall ==
    /\ content_image = NoContentImage
    /\ binary = NoBinary
    /\ contours = {}
    /\ significant_contours = {}
    /\ box = <<>>

\* No direct call of the grouping helper is in progress.
\* The GridService as constructed, before any call of a method.
NoServiceCall ==
    /\ grid_service = GridService
    /\ operation = ""
    /\ size_m = <<>>
    /\ returned = <<>>
    /\ raised = ""

NoHandlerCall ==
    /\ image_handler = ImageHandler
    /\ handler_call = [operation |-> "", argument |-> <<>>,
                       returned |-> <<>>, raised |-> ""]

NoGrouping ==
    /\ spacings = <<>>
    /\ grouped = <<>>
    /\ most_common = <<>>

Init ==
    /\ NoGrouping
    /\ NoServiceCall
    /\ NoHandlerCall
    /\ NoContentCall
    /\ called_before = FALSE
    /\ detector = ContentDetector
    /\ cv2 \in {"cv2", "None"}
    /\ pc = "idle"
    /\ exception = ""
    /\ image = NoImage
    /\ horizontal_lines = <<>>
    /\ vertical_lines = <<>>
    /\ filtered_horizontal = <<>>
    /\ filtered_vertical = <<>>
    /\ h_spacings = <<>>
    /\ v_spacings = <<>>
    /\ h_groups = <<>>
    /\ v_groups = <<>>
    /\ horizontal_spacing = <<>>
    /\ vertical_spacing = <<>>
    /\ grid_candidates = <<>>
    /\ result = NoResult

\* Lines 135-184: a call starts; the image is read and its segments found.
Extract ==
    /\ pc = "idle"
    /\ cv2 # "None"
    /\ \E mode \in RuledModes, width \in Widths, height \in Heights,
          ys \in Rulings(HorizontalGaps, MaxHorizontal)
                    \cup {DenseRuling, UnevenRuling},
          xs \in Rulings(VerticalGaps, MaxVertical)
                    \cup {DenseRuling, UnevenRuling} :
          /\ detect_grid_error(mode) = ""
          /\ Fits(ys, height)
          /\ Fits(xs, width)
          /\ image' = [mode |-> mode, width |-> width, height |-> height,
                       lines |-> Segments(width, height, ys, xs)]
    /\ pc' = "extracted"
    /\ horizontal_lines' = <<>>
    /\ vertical_lines' = <<>>
    /\ filtered_horizontal' = <<>>
    /\ filtered_vertical' = <<>>
    /\ h_spacings' = <<>>
    /\ v_spacings' = <<>>
    /\ h_groups' = <<>>
    /\ v_groups' = <<>>
    /\ horizontal_spacing' = <<>>
    /\ vertical_spacing' = <<>>
    /\ grid_candidates' = <<>>
    /\ result' = NoResult
    /\ UNCHANGED outside_detect_grid

\* Lines 132-133: without OpenCV the call returns at once.
ReturnOpenCVNotAvailable ==
    /\ pc = "idle"
    /\ cv2 = "None"
    /\ \E mode \in Modes, width \in Widths, height \in Heights :
          image' = [mode |-> mode, width |-> width, height |-> height,
                    lines |-> <<>>]
    /\ result' = Failure("OpenCV not available")
    /\ pc' = "unavailable"
    /\ UNCHANGED <<classified, filtered, estimated>>
    /\ UNCHANGED outside_detect_grid

\* Lines 135-167: a library call raises on an image it cannot take.
RaiseInDetectGrid ==
    /\ pc = "idle"
    /\ cv2 # "None"
    /\ \E mode \in Modes, width \in Widths, height \in Heights :
          /\ detect_grid_error(mode) # ""
          /\ image' = [mode |-> mode, width |-> width, height |-> height,
                       lines |-> <<>>]
          /\ exception' = detect_grid_error(mode)
    /\ pc' = "raising"
    /\ UNCHANGED <<classified, filtered, estimated, result>>
    /\ UNCHANGED <<detector, cv2, called_before, detect_content_vars,
                   grouping_vars, service_vars, handler_vars>>

\* A handler for ValueError alone: any other exception leaves the call.
CatchValueErrorInDetectGrid ==
    /\ pc = "raising"
    /\ pc' = "raised"
    /\ UNCHANGED <<detect_grid_vars, outside_detect_grid>>

\* Lines 349-353: the handler of every Exception.
CatchInDetectGrid ==
    /\ pc = "raising"
    /\ result' = Failure("Error: " \o exception)
    /\ pc' = "caught"
    /\ UNCHANGED <<image, classified, filtered, estimated>>
    /\ UNCHANGED outside_detect_grid

\* A check for None alone.
too_few_segments_none_only(lines) == lines = <<>>

\* Lines 186-187.
too_few_segments(lines) == Len(lines) < min_lines_for_grid

ReturnNotEnoughLines ==
    /\ pc = "extracted"
    /\ too_few_segments(image.lines)
    /\ result' = Failure("Not enough lines detected")
    /\ pc' = "done"
    /\ UNCHANGED <<image, classified, filtered, estimated>>
    /\ UNCHANGED outside_detect_grid

\* Lines 189-219.
Classify ==
    /\ pc = "extracted"
    /\ ~too_few_segments(image.lines)
    /\ horizontal_lines' = sorted(classify_horizontal(image.lines))
    /\ vertical_lines' = sorted(classify_vertical(image.lines))
    /\ pc' = "classified"
    /\ UNCHANGED <<image, filtered, estimated, result>>
    /\ UNCHANGED outside_detect_grid

\* Lines 221-223.
FilterDuplicates ==
    /\ pc = "classified"
    /\ filtered_horizontal' = filter_duplicate_lines(horizontal_lines)
    /\ filtered_vertical' = filter_duplicate_lines(vertical_lines)
    /\ pc' = "filtered"
    /\ UNCHANGED <<image, classified, estimated, result>>
    /\ UNCHANGED outside_detect_grid

\* A floor that fails only when both axes are short.
too_few_lines_on_both(horizontal, vertical) ==
    Len(horizontal) < min_lines_for_grid /\ Len(vertical) < min_lines_for_grid

\* Line 226.
too_few_lines(horizontal, vertical) ==
    Len(horizontal) < min_lines_for_grid \/ Len(vertical) < min_lines_for_grid

\* A detector that lowers its own floor after failing on it.
ReturnNotEnoughConsistentLinesAndRelax ==
    /\ pc = "filtered"
    /\ too_few_lines(filtered_horizontal, filtered_vertical)
    /\ result' = Failure("Not enough consistent lines for a grid")
    /\ pc' = "done"
    /\ detector' = [detector EXCEPT !.min_lines_for_grid = 3]
    /\ UNCHANGED <<image, classified, filtered, estimated>>
    /\ UNCHANGED <<cv2, called_before, exception, detect_content_vars,
                   grouping_vars, service_vars, handler_vars>>

\* Lines 225-227.
ReturnNotEnoughConsistentLines ==
    /\ pc = "filtered"
    /\ too_few_lines(filtered_horizontal, filtered_vertical)
    /\ result' = Failure("Not enough consistent lines for a grid")
    /\ pc' = "done"
    /\ UNCHANGED <<image, classified, filtered, estimated>>
    /\ UNCHANGED outside_detect_grid

\* Lines 229-249.
EstimateSpacing ==
    /\ pc = "filtered"
    /\ ~too_few_lines(filtered_horizontal, filtered_vertical)
    /\ LET hs == calculate_spacings(filtered_horizontal)
           vs == calculate_spacings(filtered_vertical)
           hg == group_similar_values(hs)
           vg == group_similar_values(vs)
           hsp == most_common_value(hg)
           vsp == most_common_value(vg)
       IN  /\ h_spacings' = hs
           /\ v_spacings' = vs
           /\ h_groups' = hg
           /\ v_groups' = vg
           /\ horizontal_spacing' = hsp
           /\ vertical_spacing' = vsp
           /\ grid_candidates' = candidates(hg, hsp, vg, vsp)
    /\ pc' = "estimated"
    /\ UNCHANGED <<image, classified, filtered, result>>
    /\ UNCHANGED outside_detect_grid

\* Lines 251-252.
ReturnNoConsistentSpacing ==
    /\ pc = "estimated"
    /\ grid_candidates = <<>>
    /\ result' = Failure("No consistent grid spacing found")
    /\ pc' = "done"
    /\ UNCHANGED <<image, classified, filtered, estimated>>
    /\ UNCHANGED outside_detect_grid

\* Lines 254-347.
Reconcile ==
    /\ pc = "estimated"
    /\ grid_candidates # <<>>
    /\ \E h_consistency \in
              {calculate_consistency(filtered_horizontal, horizontal_spacing)},
          v_consistency \in
              {calculate_consistency(filtered_vertical, vertical_spacing)},
          grid_size_px \in {list_min(grid_candidates)} :
       LET raw_grid_size_m == raw_size(grid_size_px, image.width)
           cells_across == cells(grid_size_px, image.width)
           consistency_score ==
               RDiv(RAdd(h_consistency, v_consistency), RInt(2))
           standard_size_score == size_score(raw_grid_size_m)
           num_lines_score ==
               lines_score(Len(filtered_horizontal), Len(filtered_vertical))
           confidence ==
               weighted_confidence(consistency_score, standard_size_score,
                                   num_lines_score)
           final == final_size(cells_across, raw_grid_size_m, confidence)
       IN  result' = [detected |-> TRUE,
                      grid_size_px |-> grid_size_px,
                      grid_size_m |-> final.size,
                      raw_grid_size_m |-> raw_grid_size_m,
                      cells_across |-> cells_across,
                      confidence |-> final.confidence,
                      vertical_lines |-> filtered_vertical,
                      horizontal_lines |-> filtered_horizontal,
                      vertical_spacing |-> vertical_spacing,
                      horizontal_spacing |-> horizontal_spacing,
                      consistency_score |-> consistency_score,
                      standard_size_score |-> standard_size_score,
                      num_lines_score |-> num_lines_score]
    /\ pc' = "done"
    /\ UNCHANGED <<image, classified, filtered, estimated>>
    /\ UNCHANGED outside_detect_grid

\* The images detect_content is given: in the given modes, with at most the
\* given number of blobs.
ContentImages(modes, most_blobs) ==
    {[mode |-> mode, width |-> size[1], height |-> size[2],
      background |-> background, ink |-> ink, blobs |-> blobs] :
        mode \in modes, size \in ContentSizes,
        background \in Backgrounds, ink \in Inks,
        blobs \in UNION {{b \in BlobSets(size[1], size[2]) :
                             Cardinality(b) <= most_blobs} :
                            size \in ContentSizes}}

\* The ink of an image is another level than its background; an image
\* without blobs is recorded with the ink 0.
WellFormed(img) ==
    /\ img.blobs \in BlobSets(img.width, img.height)
    /\ img.blobs # {} => img.ink # img.background
    /\ img.blobs = {} => img.ink = 0

\* Lines 57-62: without OpenCV the call returns a centred box.
ReturnDummyBox ==
    /\ pc = "idle"
    /\ cv2 = "None"
    /\ \E img \in ContentImages(Modes, 1) :
          /\ WellFormed(img)
          /\ content_image' = img
          /\ box' = dummy_box(img.width, img.height)
    /\ pc' = "content_dummy"
    /\ UNCHANGED <<binary, contours, significant_contours>>
    /\ UNCHANGED outside_detect_content

\* Lines 64-82: the image is converted and thresholded.
Threshold ==
    /\ pc = "idle"
    /\ cv2 # "None"
    /\ \E img \in ContentImages(ContentModes, MaxBlobs) :
          /\ WellFormed(img)
          /\ detect_content_error(img.mode) = ""
          /\ content_image' = img
          /\ binary' = threshold(img)
    /\ pc' = "thresholded"
    /\ UNCHANGED <<contours, significant_contours, box>>
    /\ UNCHANGED outside_detect_content

\* Lines 64-82: a library call raises on an image it cannot take.
RaiseInDetectContent ==
    /\ pc = "idle"
    /\ cv2 # "None"
    /\ \E img \in ContentImages(Modes, 1) :
          /\ WellFormed(img)
          /\ detect_content_error(img.mode) # ""
          /\ content_image' = img
          /\ exception' = detect_content_error(img.mode)
    /\ pc' = "content_raising"
    /\ UNCHANGED <<binary, contours, significant_contours, box>>
    /\ UNCHANGED <<detector, cv2, called_before, detect_grid_vars,
                   grouping_vars, service_vars, handler_vars>>

\* Lines 111-113: the handler of every Exception returns None.
CatchInDetectContent ==
    /\ pc = "content_raising"
    /\ box' = <<>>
    /\ pc' = "content_caught"
    /\ UNCHANGED <<content_image, binary, contours, significant_contours>>
    /\ UNCHANGED outside_detect_content

\* Line 85.
FindContours ==
    /\ pc = "thresholded"
    /\ contours' = find_contours(content_image, binary)
    /\ pc' = "contoured"
    /\ UNCHANGED <<content_image, binary, significant_contours, box>>
    /\ UNCHANGED outside_detect_content

\* Lines 87-88.
ReturnNoContours ==
    /\ pc = "contoured"
    /\ contours = {}
    /\ box' = <<>>
    /\ pc' = "content_done"
    /\ UNCHANGED <<content_image, binary, contours, significant_contours>>
    /\ UNCHANGED outside_detect_content

\* Lines 90-93.
SelectSignificant ==
    /\ pc = "contoured"
    /\ contours # {}
    /\ significant_contours' =
           {cnt \in contours :
               is_significant(cnt, content_image.height * content_image.width)}
    /\ pc' = "selected"
    /\ UNCHANGED <<content_image, binary, contours, box>>
    /\ UNCHANGED outside_detect_content

\* Lines 95-96.
ReturnNoSignificantContours ==
    /\ pc = "selected"
    /\ significant_contours = {}
    /\ box' = <<>>
    /\ pc' = "content_done"
    /\ UNCHANGED <<content_image, binary, contours, significant_contours>>
    /\ UNCHANGED outside_detect_content

\* Lines 98-109.
ReturnBoundingBox ==
    /\ pc = "selected"
    /\ significant_contours # {}
    /\ box' = bounding_box(significant_contours)
    /\ pc' = "content_done"
    /\ UNCHANGED <<content_image, binary, contours, significant_contours>>
    /\ UNCHANGED outside_detect_content

\* The call has returned: its locals are gone, the detector keeps nothing.
Return ==
    /\ pc \in {"done", "unavailable", "caught",
              "content_done", "content_dummy", "content_caught"}
    /\ pc' = "idle"
    /\ image' = NoImage
    /\ horizontal_lines' = <<>>
    /\ vertical_lines' = <<>>
    /\ filtered_horizontal' = <<>>
    /\ filtered_vertical' = <<>>
    /\ h_spacings' = <<>>
    /\ v_spacings' = <<>>
    /\ h_groups' = <<>>
    /\ v_groups' = <<>>
    /\ horizontal_spacing' = <<>>
    /\ vertical_spacing' = <<>>
    /\ grid_candidates' = <<>>
    /\ result' = NoResult
    /\ exception' = ""
    /\ content_image' = NoContentImage
    /\ binary' = NoBinary
    /\ contours' = {}
    /\ significant_contours' = {}
    /\ box' = <<>>
    /\ called_before' = TRUE
    /\ UNCHANGED <<detector, cv2, grouping_vars, service_vars, handler_vars>>

Next ==
    \/ Extract
    \/ ReturnOpenCVNotAvailable
    \/ RaiseInDetectGrid
    \/ CatchInDetectGrid
    \/ ReturnDummyBox
    \/ Threshold
    \/ RaiseInDetectContent
    \/ CatchInDetectContent
    \/ FindContours
    \/ ReturnNoContours
    \/ SelectSignificant
    \/ ReturnNoSignificantContours
    \/ ReturnBoundingBox
    \/ Return
    \/ ReturnNotEnoughLines
    \/ Classify
    \/ FilterDuplicates
    \/ ReturnNotEnoughConsistentLines
    \/ EstimateSpacing
    \/ ReturnNoConsistentSpacing
    \/ Reconcile

Spec == Init /\ [][Next]_vars

(***************************************************************************)
(* _group_similar_values and _most_common_value called on their own, on    *)
(* lists of spacings in any order.                                         *)
(***************************************************************************)
\* The longest list of spacings.
MaxSpacings == 4

\* 12 is exactly 20% above 10; 12.5 is within 20% of 10.5 and not of 10.
\* The values at a boundary are doubles themselves, as the spacings of
\* detect_grid are (differences of means of two integers), so that the
\* 20% of the rationals and of the code are the same.
SpacingValues ==
    {RInt(10), Rat(102, 10), Rat(105, 10), RInt(12), Rat(125, 10), RInt(21)}

SpacingLists ==
    UNION {[1..n -> SpacingValues] : n \in 0..MaxSpacings}

GroupingInit ==
    /\ called_before = FALSE
    /\ detector = ContentDetector
    /\ cv2 \in {"cv2", "None"}
    /\ pc = "grouping"
    /\ exception = ""
    /\ image = NoImage
    /\ horizontal_lines = <<>>
    /\ vertical_lines = <<>>
    /\ filtered_horizontal = <<>>
    /\ filtered_vertical = <<>>
    /\ h_spacings = <<>>
    /\ v_spacings = <<>>
    /\ h_groups = <<>>
    /\ v_groups = <<>>
    /\ horizontal_spacing = <<>>
    /\ vertical_spacing = <<>>
    /\ grid_candidates = <<>>
    /\ result = NoResult
    /\ NoContentCall
    /\ spacings \in SpacingLists
    /\ grouped = <<>>
    /\ most_common = <<>>
    /\ NoServiceCall
    /\ NoHandlerCall

\* self._group_similar_values(values, tolerance=0.2), then
\* self._most_common_value(groups).
GroupSimilarValues ==
    /\ pc = "grouping"
    /\ grouped' = group_similar_values(spacings)
    /\ most_common' = most_common_value(group_similar_values(spacings))
    /\ pc' = "grouped"
    /\ UNCHANGED <<detector, cv2, called_before, exception,
                   detect_grid_vars, detect_content_vars, spacings,
                   service_vars, handler_vars>>

GroupingNext == GroupSimilarValues

GroupingSpec == GroupingInit /\ [][GroupingNext]_vars

(***************************************************************************)
(* The classifier of lines 189-219 on segments of any length and           *)
(* direction: the loop and the two sorts that follow it.                   *)
(***************************************************************************)
\* The most segments in a list.
MaxSegments == 4

\* Segments 1.998 and 2.02 degrees from the horizontal and from the
\* vertical, one of them drawn right to left (178.002 degrees); segments of
\* length 49 and of exactly 50, along an axis and diagonal; a segment with
\* x1 = x2; a long segment 2.00002 degrees from the horizontal, whose slope
\* 305 / 8734 = 0.0349210 is just above tan(2 deg) = 0.0349208.
SegmentChoices ==
    {<<0, 10, 86, 13>>, <<0, 10, 85, 13>>, <<86, 13, 0, 10>>,
     <<0, 0, 49, 0>>, <<50, 4, 0, 4>>, <<0, 0, 30, 40>>,
     <<7, 0, 7, 60>>, <<10, 0, 13, 86>>, <<10, 0, 13, 85>>,
     <<0, 0, 8734, 305>>}

SegmentLists ==
    UNION {[1..n -> SegmentChoices] : n \in 0..MaxSegments}

\* The loop runs only in a call that has OpenCV.
ClassifierInit ==
    /\ NoGrouping
    /\ NoContentCall
    /\ NoServiceCall
    /\ NoHandlerCall
    /\ called_before = FALSE
    /\ detector = ContentDetector
    /\ cv2 = "cv2"
    /\ pc = "classifying"
    /\ exception = ""
    /\ \E segments \in SegmentLists :
           image = [mode |-> "RGB", width |-> 100, height |-> 100,
                    lines |-> segments]
    /\ horizontal_lines = <<>>
    /\ vertical_lines = <<>>
    /\ filtered_horizontal = <<>>
    /\ filtered_vertical = <<>>
    /\ h_spacings = <<>>
    /\ v_spacings = <<>>
    /\ h_groups = <<>>
    /\ v_groups = <<>>
    /\ horizontal_spacing = <<>>
    /\ vertical_spacing = <<>>
    /\ grid_candidates = <<>>
    /\ result = NoResult

\* Lines 189-219: the loop of lines 193-215, then horizontal_lines.sort()
\* and vertical_lines.sort().
ClassifySegments ==
    /\ pc = "classifying"
    /\ horizontal_lines' = sorted(classify_horizontal(image.lines))
    /\ vertical_lines' = sorted(classify_vertical(image.lines))
    /\ pc' = "segments_classified"
    /\ UNCHANGED <<image, filtered, estimated, result>>
    /\ UNCHANGED outside_detect_grid

ClassifierNext == ClassifySegments

ClassifierSpec == ClassifierInit /\ [][ClassifierNext]_vars

(***************************************************************************)
(* The methods of GridService, called in any order.                        *)
(***************************************************************************)
\* The sizes passed to set_grid_size: the ends of the preferred range and
\* sizes just outside it, sizes exactly 15% from a standard size, the size
\* equally distant from 0.2 and 0.25 (2/9) and from 0.01 and 0.02 (1/75),
\* sizes that are rounded, halves of a hundredth, sizes outside the range of
\* the clamp and infinity.
SizeInputs ==
    {RInt(-1), RInt(0), Rat(5, 1000), Rat(85, 10000), Rat(1, 100),
     Rat(1, 75), Rat(3, 100), Rat(35, 1000), Rat(8, 100), Rat(94, 1000),
     Rat(95, 1000), Rat(1, 10), Rat(105, 1000), Rat(106, 1000),
     Rat(115, 1000), Rat(116, 1000), Rat(125, 1000), Rat(168, 1000),
     Rat(2, 9), Rat(2875, 10000), Rat(4, 10), Rat(425, 1000),
     Rat(575, 1000), Rat(6, 10), RInt(5), Infinity}

\* A caller may pass the size the last set_grid_size call returned.
ReturnedSize ==
    IF operation = "set_grid_size" /\ raised = "" THEN {returned} ELSE {}

\* The sizes passed to is_standard_grid_size.
CheckInputs ==
    {RInt(0), Rat(1, 10), Rat(1005, 10000), Rat(12, 100), Rat(5, 10),
     Infinity}

outside_service ==
    <<detector, cv2, called_before, pc, exception, detect_grid_vars,
      detect_content_vars, grouping_vars, handler_vars>>

\* toggle_grid, lines 27-28.
ToggleGrid ==
    /\ grid_service' = toggle_grid(grid_service)
    /\ operation' = "toggle_grid"
    /\ size_m' = <<>>
    /\ returned' = grid_service'.show_grid
    /\ raised' = ""
    /\ UNCHANGED outside_service

\* set_grid_size, lines 41-63.
SetGridSize ==
    \E size \in SizeInputs \cup ReturnedSize :
        /\ operation' = "set_grid_size"
        /\ size_m' = size
        /\ IF ~in_preferred_range(size)
              /\ set_grid_size_raises(grid_service, size)
           THEN /\ raised' = "OverflowError"
                /\ returned' = <<>>
                /\ UNCHANGED grid_service
           ELSE /\ grid_service' =
                       [grid_service EXCEPT
                           !.grid_size = set_grid_size(grid_service, size)]
                /\ returned' = grid_service'.grid_size
                /\ raised' = ""
        /\ UNCHANGED outside_service

\* reset_to_standard_grid, lines 71-72.
ResetToStandardGrid ==
    /\ grid_service' =
           [grid_service EXCEPT !.grid_size = grid_service.preferred_grid_size]
    /\ operation' = "reset_to_standard_grid"
    /\ size_m' = <<>>
    /\ returned' = grid_service'.grid_size
    /\ raised' = ""
    /\ UNCHANGED outside_service

\* get_cells_per_meter, line 80; 1.0 / 0.0 raises ZeroDivisionError.
GetCellsPerMeter ==
    /\ operation' = "get_cells_per_meter"
    /\ size_m' = <<>>
    /\ IF grid_service.grid_size[1] = 0
       THEN /\ raised' = "ZeroDivisionError"
            /\ returned' = <<>>
       ELSE /\ returned' = get_cells_per_meter(grid_service)
            /\ raised' = ""
    /\ UNCHANGED grid_service
    /\ UNCHANGED outside_service

\* is_standard_grid_size, lines 92-95.
IsStandardGridSize ==
    \E size \in CheckInputs :
        /\ operation' = "is_standard_grid_size"
        /\ size_m' = size
        /\ returned' = is_standard_grid_size(grid_service, size)
        /\ raised' = ""
        /\ UNCHANGED grid_service
        /\ UNCHANGED outside_service

ServiceNext ==
    \/ ToggleGrid
    \/ SetGridSize
    \/ ResetToStandardGrid
    \/ GetCellsPerMeter
    \/ IsStandardGridSize

ServiceSpec == Init /\ [][ServiceNext]_vars

(***************************************************************************)
(* The methods of ImageHandler, called in any order on the directories of  *)
(* the file system and on one that does not exist.                         *)
(***************************************************************************)
outside_handler ==
    <<detector, cv2, called_before, pc, exception, detect_grid_vars,
      detect_content_vars, grouping_vars, service_vars>>

\* The heights passed to set_image_height: below the minimum, the minimum,
\* halves of a tenth, larger heights, infinity and nan.
HeightInputs ==
    {RInt(-1), RInt(0), Rat(5, 100), Rat(1, 10), Rat(14, 100), Rat(15, 100),
     Rat(1, 4), RInt(1), Rat(5, 2), Rat(777, 100), Infinity, NaN}

\* load_folder, lines 29-58.
LoadFolder ==
    \E directory \in Directories \cup {"missing"} :
        LET call == load_folder(image_handler, directory)
        IN  /\ image_handler' = call.self
            /\ handler_call' = [operation |-> "load_folder",
                                argument |-> directory,
                                returned |-> call.returned,
                                raised |-> ""]
            /\ UNCHANGED outside_handler

\* load_current_image, lines 60-84.
LoadCurrentImage ==
    LET call == load_current_image(image_handler)
    IN  /\ image_handler' = call.self
        /\ handler_call' = [operation |-> "load_current_image",
                            argument |-> <<>>,
                            returned |-> call.returned,
                            raised |-> ""]
        /\ UNCHANGED outside_handler

\* set_image_height, lines 101-114.
SetImageHeight ==
    \E height \in HeightInputs :
        /\ IF set_image_height_raises(height)
           THEN /\ UNCHANGED image_handler
                /\ handler_call' = [operation |-> "set_image_height",
                                    argument |-> height,
                                    returned |-> <<>>,
                                    raised |-> "OverflowError"]
           ELSE /\ image_handler' = set_image_height(image_handler, height)
                /\ handler_call' = [operation |-> "set_image_height",
                                    argument |-> height,
                                    returned |-> <<>>,
                                    raised |-> ""]
        /\ UNCHANGED outside_handler

HandlerNext ==
    \/ LoadFolder
    \/ LoadCurrentImage
    \/ SetImageHeight

HandlerSpec == Init /\ [][HandlerNext]_vars

(***************************************************************************)
(* test_grid_detection, src/test_grid_detection.py: one detect_grid call   *)
(* whose detected grid_size_m is passed to set_grid_size of a new          *)
(* GridService.                                                            *)
(***************************************************************************)
\* Lines 56-59: adjusted_size = grid_service.set_grid_size(original_size).
TestGridService ==
    /\ pc = "done"
    /\ result.detected
    /\ operation = ""
    /\ pc' = "adjusted"
    /\ operation' = "set_grid_size"
    /\ size_m' = result.grid_size_m
    /\ grid_service' =
           [grid_service EXCEPT
               !.grid_size = set_grid_size(grid_service, result.grid_size_m)]
    /\ returned' = grid_service'.grid_size
    /\ raised' = ""
    /\ UNCHANGED <<detector, cv2, called_before, exception, detect_grid_vars,
                   detect_content_vars, grouping_vars, handler_vars>>

TestNext ==
    \/ Next
    \/ TestGridService

TestSpec == Init /\ [][TestNext]_vars

(***************************************************************************)
(* Properties of detect_grid.                                              *)
(***************************************************************************)
Returned == pc = "done"
Detected == pc = "done" /\ result.detected

StandardSizes == {standard_grid_sizes[i] : i \in 1..Len(standard_grid_sizes)}

\* width / grid_size_px of the returned result.
CellsAcross == RDiv(RInt(image.width), result.grid_size_px)
\* grid_size_px / width of the returned result.
RawSize == RDiv(result.grid_size_px, RInt(image.width))

InRange(c, lo, hi) == RLe(lo, c) /\ RLe(c, hi)
Forces10(c) == InRange(c, RInt(9), RInt(11))
Forces20(c) == InRange(c, RInt(19), RInt(21))
Forces5(c) == InRange(c, Rat(9, 2), Rat(11, 2))
NoOverride(c) == ~Forces10(c) /\ ~Forces20(c) /\ ~Forces5(c)

\* The weighted sum of the three scores the result reports.
WeightedSum ==
    RAdd(RAdd(RMul(Rat(4, 10), result.consistency_score),
              RMul(Rat(4, 10), result.standard_size_score)),
         RMul(Rat(2, 10), result.num_lines_score))

\* C1: the final grid size follows the ordered cascade on cells_across =
\* width / grid_size_px: 9..11 gives 0.1 with confidence >= 0.9; otherwise
\* 19..21 gives 0.05 with confidence >= 0.85; otherwise 4.5..5.5 gives 0.2
\* with confidence >= 0.85, whatever the raw physical pitch is.
C1_CascadeOrder ==
    Detected =>
        LET c == CellsAcross
        IN  /\ Forces10(c) =>
                /\ result.grid_size_m = Rat(1, 10)
                /\ RLe(Rat(9, 10), result.confidence)
            /\ ~Forces10(c) /\ Forces20(c) =>
                /\ result.grid_size_m = Rat(5, 100)
                /\ RLe(Rat(85, 100), result.confidence)
            /\ ~Forces10(c) /\ ~Forces20(c) /\ Forces5(c) =>
                /\ result.grid_size_m = Rat(2, 10)
                /\ RLe(Rat(85, 100), result.confidence)

\* C1 witness: a result with cells_across = 10.4 forced to 0.1 and its
\* confidence raised from a lower weighted sum to 0.9.
C1_Witness ==
    /\ Detected
    /\ CellsAcross = Rat(104, 10)
    /\ result.grid_size_m = Rat(1, 10)
    /\ result.confidence = Rat(9, 10)
    /\ RLt(WeightedSum, Rat(9, 10))

\* The standard sizes at the least relative distance |raw - s| / s from raw.
RelativeClosest(raw) ==
    {s \in StandardSizes :
        \A t \in StandardSizes :
            RLe(relative_distance(raw, s), relative_distance(raw, t))}

\* The standard size at the least absolute distance |raw - s| from raw, the
\* smaller one on a tie.
AbsoluteClosest(raw) ==
    CHOOSE s \in StandardSizes :
        \A t \in StandardSizes :
            \/ RLt(RAbs(RSub(raw, s)), RAbs(RSub(raw, t)))
            \/ RAbs(RSub(raw, s)) = RAbs(RSub(raw, t)) /\ RLe(s, t)

\* raw rounded to the nearest 0.01 (a tie to the even hundredth).
RoundedToHundredth(raw) == Rat(PyRound(RMul(raw, RInt(100))), 100)

Clamped(size) ==
    IF RLt(size, Rat(1, 100)) THEN Rat(1, 100)
    ELSE IF RLt(Rat(1, 2), size) THEN Rat(1, 2)
    ELSE size

\* grid_size_m is the standard size s when s is less than 15% from raw, the
\* rounded raw size when s is more than 15% from raw, one of the two when s
\* is exactly 15% from raw; clamped in each case.
SnapsTo(s, raw) ==
    LET d == relative_distance(raw, s)
    IN  /\ RLt(d, Rat(15, 100)) => result.grid_size_m = Clamped(s)
        /\ RLt(Rat(15, 100), d) =>
               result.grid_size_m = Clamped(RoundedToHundredth(raw))
        /\ d = Rat(15, 100) =>
               result.grid_size_m \in
                   {Clamped(s), Clamped(RoundedToHundredth(raw))}

\* C2 as stated: when no cells_across range matches, grid_size_m is the
\* standard size closest to the raw size by relative distance if that is
\* within 15%, and the raw size rounded to 0.01 otherwise.
C2_ClosestByRelativeDistance ==
    Detected /\ NoOverride(CellsAcross) =>
        \E s \in RelativeClosest(RawSize) : SnapsTo(s, RawSize)

\* C2 amended: when no cells_across range matches, grid_size_m is the
\* standard size closest to the raw size by absolute distance (the smaller
\* on a tie) if its relative distance is below 15%, and the raw size rounded
\* to 0.01 if its relative distance is above 15%.
C2_ClosestByAbsoluteDistance ==
    Detected /\ NoOverride(CellsAcross) =>
        /\ result.raw_grid_size_m = RawSize
        /\ SnapsTo(AbsoluteClosest(RawSize), RawSize)

\* C2 witness: no range matches, the closest size by absolute distance is
\* not the closest by relative distance, both are within 15%, and the
\* result is the former.
C2_Witness ==
    /\ Detected
    /\ NoOverride(CellsAcross)
    /\ AbsoluteClosest(RawSize) \notin RelativeClosest(RawSize)
    /\ \A s \in RelativeClosest(RawSize) :
           RLt(relative_distance(RawSize, s), Rat(15, 100))
    /\ RLt(relative_distance(RawSize, AbsoluteClosest(RawSize)), Rat(15, 100))
    /\ result.grid_size_m = AbsoluteClosest(RawSize)

\* C3: every detected result has grid_size_m in [0.01, 0.5].
C3_GridSizeInRange ==
    Detected =>
        /\ RLe(Rat(1, 100), result.grid_size_m)
        /\ RLe(result.grid_size_m, Rat(5, 10))

\* C3 witness: no range matches, the raw size rounds to more than 0.5 and is
\* more than 15% from every standard size, and the result is 0.5.
C3_Witness ==
    /\ Detected
    /\ NoOverride(CellsAcross)
    /\ \A s \in StandardSizes :
           RLt(Rat(15, 100), relative_distance(RawSize, s))
    /\ RLt(Rat(5, 10), RoundedToHundredth(RawSize))
    /\ result.grid_size_m = Rat(5, 10)

UnitInterval(x) == RLe(RInt(0), x) /\ RLe(x, RInt(1))

\* C4: every detected result has its confidence and its three scores in
\* [0, 1].
C4_ScoresInUnitInterval ==
    Detected =>
        /\ UnitInterval(result.confidence)
        /\ UnitInterval(result.consistency_score)
        /\ UnitInterval(result.standard_size_score)
        /\ UnitInterval(result.num_lines_score)

\* C4 witness: a detected result whose raw size is more than 100% from every
\* standard size, so that the standard-size score is floored at 0.
C4_Witness ==
    /\ Detected
    /\ \A s \in StandardSizes : RLt(RInt(1), relative_distance(RawSize, s))
    /\ result.standard_size_score = RInt(0)
    /\ RLt(RInt(0), result.confidence)

\* The deduplicator has run in the current call.
FailedWith(reason) ==
    Returned /\ ~result.detected /\ result.reason = reason

Deduplicated ==
    \/ pc \in {"filtered", "estimated"}
    \/ Returned /\ ~FailedWith("Not enough lines detected")

\* Consecutive entries are at least the tolerance apart.
Spread(lines) ==
    \A i \in 1..(Len(lines) - 1) :
        RLe(RInt(duplicate_tolerance), RSub(lines[i + 1], lines[i]))

StrictlyIncreasing(lines) ==
    \A i \in 1..Len(lines), j \in 1..Len(lines) :
        i < j => RLt(lines[i], lines[j])

\* C5: the deduplicated positions of each axis are strictly increasing and
\* no two of them are closer than the tolerance of 10 pixels.
C5_FilteredSpread ==
    Deduplicated =>
        /\ StrictlyIncreasing(filtered_horizontal)
        /\ StrictlyIncreasing(filtered_vertical)
        /\ Spread(filtered_horizontal)
        /\ Spread(filtered_vertical)

\* C5 witness: the deduplicator dropped a position and kept at least three,
\* two of them exactly the tolerance apart.
C5_Witness ==
    /\ pc = "filtered"
    /\ Len(filtered_horizontal) < Len(horizontal_lines)
    /\ Len(filtered_horizontal) >= 3
    /\ \E i \in 1..(Len(filtered_horizontal) - 1) :
           RSub(filtered_horizontal[i + 1], filtered_horizontal[i])
               = RInt(duplicate_tolerance)

Survives(position, kept) == \E k \in 1..Len(kept) : kept[k] = position

Close(earlier, later) ==
    RLt(RSub(later, earlier), RInt(duplicate_tolerance))

\* Of any two input positions closer than the tolerance, the earlier one
\* survives and the later one does not.
EarlierSurvives(lines, kept) ==
    \A i \in 1..Len(lines), j \in 1..Len(lines) :
        i < j /\ Close(lines[i], lines[j]) =>
            Survives(lines[i], kept) /\ ~Survives(lines[j], kept)

\* Of any two input positions closer than the tolerance, at most one
\* survives; the first position survives; and a position is dropped only
\* when it is closer than the tolerance to an earlier position that survives.
GreedyFirstKept(lines, kept) ==
    /\ \A i \in 1..Len(lines), j \in 1..Len(lines) :
           i < j /\ Close(lines[i], lines[j]) =>
               ~(Survives(lines[i], kept) /\ Survives(lines[j], kept))
    /\ lines # <<>> => Survives(lines[1], kept)
    /\ \A j \in 1..Len(lines) :
           ~Survives(lines[j], kept) =>
               \E i \in 1..(j - 1) :
                   Survives(lines[i], kept) /\ Close(lines[i], lines[j])
    /\ \A k \in 1..Len(kept) : Survives(kept[k], lines)

\* C6 as stated: of any two sorted input positions closer than the
\* tolerance only one survives deduplication, and it is the earlier one.
C6_EarlierAlwaysSurvives ==
    Deduplicated =>
        /\ EarlierSurvives(horizontal_lines, filtered_horizontal)
        /\ EarlierSurvives(vertical_lines, filtered_vertical)

\* C6 amended: of any two sorted input positions closer than the tolerance
\* at most one survives deduplication; the first position survives, and a
\* position is dropped only when it is closer than the tolerance to an
\* earlier position that survives.
C6_GreedyFirstKept ==
    Deduplicated =>
        /\ GreedyFirstKept(horizontal_lines, filtered_horizontal)
        /\ GreedyFirstKept(vertical_lines, filtered_vertical)

\* C6 witness: two input positions closer than the tolerance of which the
\* earlier was dropped and the later survives.
C6_Witness ==
    /\ pc = "filtered"
    /\ \E i \in 1..Len(horizontal_lines), j \in 1..Len(horizontal_lines) :
           /\ i < j
           /\ Close(horizontal_lines[i], horizontal_lines[j])
           /\ ~Survives(horizontal_lines[i], filtered_horizontal)
           /\ Survives(horizontal_lines[j], filtered_horizontal)

NothingEstimated ==
    /\ h_spacings = <<>>
    /\ v_spacings = <<>>
    /\ h_groups = <<>>
    /\ v_groups = <<>>
    /\ horizontal_spacing = <<>>
    /\ vertical_spacing = <<>>
    /\ grid_candidates = <<>>

NothingClassified ==
    /\ horizontal_lines = <<>>
    /\ vertical_lines = <<>>
    /\ filtered_horizontal = <<>>
    /\ filtered_vertical = <<>>

ShortAxis ==
    Len(filtered_horizontal) < 4 \/ Len(filtered_vertical) < 4

\* C7: when an axis has fewer than 4 deduplicated positions the call
\* returns the insufficient-lines failure and computes no spacing, group,
\* dominant spacing or candidate; spacing estimation is reached only with
\* at least 4 positions on both axes.
C7_ShortAxisFails ==
    /\ Deduplicated /\ Returned /\ ShortAxis =>
           /\ result = [detected |-> FALSE,
                        reason |-> "Not enough consistent lines for a grid"]
           /\ NothingEstimated
    /\ pc = "filtered" => NothingEstimated
    /\ pc = "estimated" => ~ShortAxis

\* C7 witness: a call returned with exactly 3 deduplicated positions on one
\* axis and 4 on the other.
C7_Witness ==
    /\ FailedWith("Not enough consistent lines for a grid")
    /\ Len(filtered_horizontal) = 3
    /\ Len(filtered_vertical) = 4

\* C8: when the extractor returns no segments or fewer than 4, the call
\* returns the not-enough-lines failure and classifies, deduplicates and
\* estimates nothing; the later stages are reached only with 4 segments.
C8_FewSegmentsFail ==
    /\ Returned /\ Len(image.lines) < 4 =>
           /\ result = [detected |-> FALSE,
                        reason |-> "Not enough lines detected"]
           /\ NothingClassified
           /\ NothingEstimated
    /\ pc \in {"classified", "filtered", "estimated"} => Len(image.lines) >= 4
    /\ pc = "extracted" => NothingClassified /\ NothingEstimated

\* C8 witness: a call returned the failure for exactly 3 segments.
C8_Witness ==
    /\ FailedWith("Not enough lines detected")
    /\ Len(image.lines) = 3

\* The number of members of an axis's dominant group: the spacings grouped
\* under its dominant spacing.
DominantMembers(groups, spacing) ==
    IF \E i \in 1..Len(groups) : groups[i].rep = spacing
    THEN Len(groups[CHOOSE i \in 1..Len(groups) :
                        groups[i].rep = spacing].members)
    ELSE 0

Contributes(groups, spacing) == DominantMembers(groups, spacing) >= 3

Contributed ==
    (IF Contributes(h_groups, horizontal_spacing)
     THEN {horizontal_spacing} ELSE {})
    \cup (IF Contributes(v_groups, vertical_spacing)
          THEN {vertical_spacing} ELSE {})

\* C9: an axis contributes its dominant spacing as a candidate only if the
\* dominant group has at least 3 members, and grid_size_px is the least of
\* the contributed candidates.
C9_MinimumOfCandidates ==
    /\ pc = "estimated" =>
           {grid_candidates[i] : i \in 1..Len(grid_candidates)} = Contributed
    /\ Detected =>
           /\ result.grid_size_px \in Contributed
           /\ \A c \in Contributed : RLe(result.grid_size_px, c)
           /\ result.horizontal_spacing = horizontal_spacing
           /\ result.vertical_spacing = vertical_spacing

\* C9 witness: both axes contributed, and grid_size_px is the vertical
\* spacing, the smaller of the two.
C9_Witness ==
    /\ Detected
    /\ Contributes(h_groups, horizontal_spacing)
    /\ Contributes(v_groups, vertical_spacing)
    /\ RLt(vertical_spacing, horizontal_spacing)
    /\ result.grid_size_px = vertical_spacing

\* C10: with at least 4 deduplicated positions on both axes, the call
\* returns the no-consistent-spacing failure when neither dominant group
\* has 3 members, and detected = True only when one has.
C10_NoCandidateFails ==
    Deduplicated /\ Returned /\ ~ShortAxis =>
        /\ Contributed = {} =>
               result = [detected |-> FALSE,
                         reason |-> "No consistent grid spacing found"]
        /\ result.detected => Contributed # {}

\* C10 witness: a call returned the failure with 4 positions or more on both
\* axes, the largest group of one axis having two members.
C10_Witness ==
    /\ FailedWith("No consistent grid spacing found")
    /\ ~ShortAxis
    /\ DominantMembers(v_groups, vertical_spacing) = 2
    /\ DominantMembers(h_groups, horizontal_spacing) < 3

(***************************************************************************)
(* Properties of _group_similar_values and _most_common_value.             *)
(***************************************************************************)
Grouped == pc = "grouped"

Occurrences(v, s) == Cardinality({i \in 1..Len(s) : s[i] = v})

\* The places <<group, index>> of the members of the returned groups.
Places ==
    UNION {{<<k, i>> : i \in 1..Len(grouped[k].members)} :
              k \in 1..Len(grouped)}

PlacesOf(v) == {p \in Places : grouped[p[1]].members[p[2]] = v}

GroupsHolding(v) == {p[1] : p \in PlacesOf(v)}

\* C11: the groups partition the input: every occurrence of a spacing is in
\* exactly one group, so the group sizes sum to the number of spacings, no
\* spacing is dropped and none is in two groups.
C11_GroupsPartitionInput ==
    Grouped =>
        /\ Cardinality(Places) = Len(spacings)
        /\ \A v \in SpacingValues :
               /\ Cardinality(PlacesOf(v)) = Occurrences(v, spacings)
               /\ Occurrences(v, spacings) > 0 =>
                      Cardinality(GroupsHolding(v)) = 1
        /\ \A j \in 1..Len(grouped), k \in 1..Len(grouped) :
               j # k => grouped[j].rep # grouped[k].rep

\* C11 witness: an unsorted list with a repeated spacing was split into
\* two groups or more, one of them holding different spacings.
C11_Witness ==
    /\ Grouped
    /\ Len(grouped) >= 2
    /\ \E v \in SpacingValues : Occurrences(v, spacings) = 2
    /\ \E i \in 1..(Len(spacings) - 1) : RLt(spacings[i + 1], spacings[i])
    /\ \E k \in 1..Len(grouped) :
           Len(grouped[k].members) >= 2
           /\ grouped[k].members[1] # Last(grouped[k].members)

\* |v - rep| / rep <= 0.2, without the division.
Within20Percent(v, repr) ==
    RLe(RMul(RInt(5), RAbs(RSub(v, repr))), repr)

Ascending(s) == \A i \in 1..(Len(s) - 1) : RLe(s[i], s[i + 1])

\* C12: the groups are those of a first fit over the spacings in ascending
\* order: a group's representative is the spacing that started it, its least
\* member; each member is within 20% of the representative of its group and
\* of no group created earlier; a spacing within 20% of no earlier
\* representative starts a group; for [10, 10.5, 21, 10.2] the groups are
\* {10, 10.2, 10.5} and {21}, and the dominant one is the first.
C12_FirstFitAscending ==
    Grouped =>
        /\ \A k \in 1..Len(grouped) :
               /\ grouped[k].members # <<>>
               /\ grouped[k].members[1] = grouped[k].rep
               /\ Ascending(grouped[k].members)
               /\ \A i \in 1..Len(grouped[k].members) :
                      /\ Within20Percent(grouped[k].members[i], grouped[k].rep)
                      /\ \A j \in 1..(k - 1) :
                             ~Within20Percent(grouped[k].members[i],
                                              grouped[j].rep)
        /\ \A j \in 1..Len(grouped), k \in 1..Len(grouped) :
               j < k => RLt(grouped[j].rep, grouped[k].rep)
        /\ \A i \in 1..Len(spacings) : GroupsHolding(spacings[i]) # {}
        /\ spacings = <<RInt(10), Rat(105, 10), RInt(21), Rat(102, 10)>> =>
               /\ grouped =
                      <<[rep |-> RInt(10),
                         members |-> <<RInt(10), Rat(102, 10), Rat(105, 10)>>],
                        [rep |-> RInt(21), members |-> <<RInt(21)>>]>>
               /\ most_common = RInt(10)
        /\ grouped # <<>> =>
               \E k \in 1..Len(grouped) :
                   /\ most_common = grouped[k].rep
                   /\ \A j \in 1..Len(grouped) :
                          Len(grouped[j].members) <= Len(grouped[k].members)

\* C12 witness: the groups returned for [10, 10.5, 21, 10.2].
C12_Witness ==
    /\ Grouped
    /\ spacings = <<RInt(10), Rat(105, 10), RInt(21), Rat(102, 10)>>
    /\ Len(grouped) = 2
    /\ Len(grouped[1].members) = 3
    /\ most_common = RInt(10)

(***************************************************************************)
(* Properties of the two public entry points.                              *)
(***************************************************************************)
\* C13: no exception escapes detect_grid or detect_content: one raised in
\* detect_grid comes back as the result {'detected': False, 'reason':
\* 'Error: <text>'} with the exception's text, one raised in detect_content
\* as None.
C13_NoExceptionEscapes ==
    /\ pc # "raised"
    /\ pc = "caught" =>
           /\ exception # ""
           /\ result = [detected |-> FALSE, reason |-> "Error: " \o exception]
    /\ pc = "content_caught" => exception # "" /\ box = <<>>
    /\ exception # "" =>
           pc \in {"raising", "caught", "content_raising", "content_caught"}

\* C13 witness: detect_grid returned the failure for an exception raised
\* after the conversion, by the adaptive threshold.
C13_Witness ==
    /\ pc = "caught"
    /\ image.mode = "F"
    /\ result.reason = "Error: adaptiveThreshold: not an 8-bit image"

ContentReturned == pc = "content_done"

BelowOnePercent(cnt) ==
    100 * contourArea(cnt) < content_image.width * content_image.height

Survivors == {cnt \in contours : ~BelowOnePercent(cnt)}

\* The box is the envelope of the rectangles: each lies inside it and each
\* of its sides touches one of them.
IsEnvelope(b, rects) ==
    /\ \A r \in rects :
           /\ RLe(b[1], RInt(r.x)) /\ RLe(RInt(r.x + r.w), b[3])
           /\ RLe(b[2], RInt(r.y)) /\ RLe(RInt(r.y + r.h), b[4])
    /\ \E r \in rects : b[1] = RInt(r.x)
    /\ \E r \in rects : b[2] = RInt(r.y)
    /\ \E r \in rects : b[3] = RInt(r.x + r.w)
    /\ \E r \in rects : b[4] = RInt(r.y + r.h)

\* C14: detect_content discards exactly the contours whose area is below 1%
\* of the image area, returns None if and only if no contour survives, and
\* otherwise the envelope of the bounding rectangles of the survivors.
C14_DiscardsBelowOnePercent ==
    ContentReturned =>
        /\ box = <<>> <=> Survivors = {}
        /\ Survivors # {} => IsEnvelope(box, Survivors)

Midpoint == Rat(255, 2)

\* C15: the threshold of detect_content is inverted for an image whose mean
\* intensity is above the midpoint and direct for one whose mean is below.
C15_DirectionFromMean ==
    pc \in {"thresholded", "contoured", "selected", "content_done"} =>
        /\ RLt(Midpoint, mean_intensity(content_image)) =>
               binary.type = "THRESH_BINARY_INV"
        /\ RLt(mean_intensity(content_image), Midpoint) =>
               binary.type = "THRESH_BINARY"

Blank(img) == Cardinality(gray_levels(img)) = 1

\* C16: with OpenCV, detect_content returns None for every blank image: it
\* does not raise and it returns no box.
C16_BlankGivesNone ==
    /\ pc # "raised"
    /\ pc \in {"content_done", "content_caught"} /\ Blank(content_image) =>
           box = <<>>

\* The locals of the calls and of the helper are as after construction.
AtRest ==
    /\ exception = ""
    /\ image = NoImage
    /\ NothingClassified
    /\ NothingEstimated
    /\ result = NoResult
    /\ NoContentCall
    /\ NoGrouping

\* C17: no call changes the detector's parameters, weights or table of
\* standard sizes, and between calls the state after any sequence of
\* detect_grid and detect_content calls is the state of a freshly
\* constructed detector, so that the next call on an image returns what it
\* returns on a fresh detector.
C17_HistoryIndependent ==
    /\ detector = ContentDetector
    /\ pc = "idle" => AtRest

\* C17 witness: a detect_grid call that followed earlier calls has detected
\* a grid.
C17_Witness ==
    /\ called_before
    /\ Detected
    /\ detector = ContentDetector

\* C18: without OpenCV detect_content returns the centred box (0.1 width,
\* 0.1 height, 0.9 width, 0.9 height) for every image and never None, and
\* detect_grid returns the failure 'OpenCV not available' and runs no stage.
C18_WithoutOpenCV ==
    cv2 = "None" =>
        /\ pc \in {"idle", "content_dummy", "unavailable"}
        /\ pc = "content_dummy" =>
               /\ box = <<Rat(content_image.width, 10),
                          Rat(content_image.height, 10),
                          Rat(9 * content_image.width, 10),
                          Rat(9 * content_image.height, 10)>>
               /\ binary = NoBinary
               /\ contours = {}
        /\ pc = "unavailable" =>
               /\ result = [detected |-> FALSE,
                            reason |-> "OpenCV not available"]
               /\ NothingClassified
               /\ NothingEstimated

\* C18 witness: without OpenCV, detect_content returned the centred box for
\* an image that OpenCV could not have converted.
C18_Witness ==
    /\ cv2 = "None"
    /\ pc = "content_dummy"
    /\ content_image.mode = "LA"
    /\ content_image.width = 10
    /\ box[1] = RInt(1)
    /\ box[3] = RInt(9)

(***************************************************************************)
(* GridService: the range of the grid size and what set_grid_size stores.  *)
(***************************************************************************)
InGridRange(size) == RLe(Rat(1, 100), size) /\ RLe(size, Rat(5, 10))

\* C19: after any sequence of GridService calls the grid size lies in
\* [0.01, 0.5], so that get_cells_per_meter never divides by zero and
\* returns an integer from 2 to 100.
C19_GridSizeInRange ==
    /\ InGridRange(grid_service.grid_size)
    /\ raised # "ZeroDivisionError"
    /\ operation = "get_cells_per_meter" => returned \in 2..100

\* C19 witness: get_cells_per_meter has returned 100 for a grid size of
\* 0.01, the lower end of the range.
C19_Witness ==
    /\ operation = "get_cells_per_meter"
    /\ grid_service.grid_size = Rat(1, 100)
    /\ returned = 100

StandardSizesOf(self) ==
    {self.standard_grid_sizes[i] : i \in 1..Len(self.standard_grid_sizes)}

\* The standard size relatively closest to the size, the smaller of two
\* equally close.
NearestStandard(self, size) ==
    CHOOSE std \in StandardSizesOf(self) :
        \A other \in StandardSizesOf(self) :
            \/ RLt(relative_distance(size, std),
                   relative_distance(size, other))
            \/ /\ relative_distance(size, std) =
                      relative_distance(size, other)
               /\ RLe(std, other)

\* The relative distance of the size passed from the standard size is at
\* most 0.15; of the sizes written with a distance of 15%, the double passed
\* for 0.425 lies beyond it.
AtMost15Percent(size, std) ==
    \/ RLt(relative_distance(size, std), Rat(15, 100))
    \/ /\ relative_distance(size, std) = Rat(15, 100)
       /\ size # Rat(425, 1000)

\* The value is the clamp of a multiple of 0.01 nearest to the size.
ClampedNearestHundredth(value, size) ==
    \E k \in -100..500 :
        /\ RLe(RAbs(RSub(Rat(k, 100), size)), Rat(5, 1000))
        /\ value = RMax(Rat(1, 100), RMin(Rat(5, 10), Rat(k, 100)))

\* What the claim has set_grid_size store for a finite size.
StoredFor(value, self, size) ==
    IF RLe(Rat(95, 1000), size) /\ RLe(size, Rat(105, 1000))
    THEN value = Rat(1, 10)
    ELSE IF AtMost15Percent(size, NearestStandard(self, size))
    THEN value = RMax(Rat(1, 100),
                      RMin(Rat(5, 10), NearestStandard(self, size)))
    ELSE ClampedNearestHundredth(value, size)

\* C20: a set_grid_size(s) call that returns stores 0.1 for s in
\* [0.095, 0.105]; otherwise the relatively closest standard size (the
\* smaller on a tie) when its relative distance is at most 0.15, otherwise s
\* rounded to the nearest 0.01, both clamped to [0.01, 0.5]; it returns the
\* stored grid size and leaves show_grid as it was.
C20_SetGridSizeStores ==
    [][operation' = "set_grid_size" /\ raised' = "" =>
           /\ StoredFor(grid_service'.grid_size, grid_service, size_m')
           /\ returned' = grid_service'.grid_size
           /\ grid_service'.show_grid = grid_service.show_grid]_vars

\* C20 witness: with the grid shown, set_grid_size(2/9), equally distant
\* from 0.2 and 0.25 before the distances are rounded, has stored and
\* returned 0.2.
C20_Witness ==
    /\ operation = "set_grid_size"
    /\ size_m = Rat(2, 9)
    /\ returned = Rat(2, 10)
    /\ grid_service.grid_size = Rat(2, 10)
    /\ grid_service.show_grid

(***************************************************************************)
(* The classifier.                                                         *)
(***************************************************************************)
LengthSquared(seg) ==
    (seg[3] - seg[1]) * (seg[3] - seg[1])
    + (seg[4] - seg[2]) * (seg[4] - seg[2])

ShorterThanMinimum(seg) == LengthSquared(seg) < 50 * 50

\* rise / run < tan(2 degrees) for run # 0, with tan(2 degrees) taken as
\* 822 / 23539, which exceeds it by 3 parts in 10^10: no slope of a segment
\* less than 23539 px long lies between the two.
Within2Degrees(rise, run) ==
    IAbs(rise) * 23539 < 822 * IAbs(run)

\* The angle from the horizontal is within 2 degrees of 0 or of 180.
NearHorizontal(seg) ==
    seg[1] # seg[3] /\ Within2Degrees(seg[4] - seg[2], seg[3] - seg[1])

\* The angle is within 2 degrees of 90, as it is for x1 = x2.
NearVertical(seg) ==
    \/ seg[1] = seg[3]
    \/ seg[2] # seg[4] /\ Within2Degrees(seg[3] - seg[1], seg[4] - seg[2])

ContributesY(seg) == ~ShorterThanMinimum(seg) /\ NearHorizontal(seg)
ContributesX(seg) == ~ShorterThanMinimum(seg) /\ NearVertical(seg)

MeanY(segments) ==
    [i \in 1..Len(segments) |-> Rat(segments[i][2] + segments[i][4], 2)]

MeanX(segments) ==
    [i \in 1..Len(segments) |-> Rat(segments[i][1] + segments[i][3], 2)]

\* C21: a segment shorter than 50 px contributes nothing; otherwise one
\* within 2 degrees of 0 or 180 contributes its mean y to the horizontal
\* list, one within 2 degrees of 90 (every one with x1 = x2) its mean x to
\* the vertical list, every other is discarded, and none contributes to
\* both lists.  The lists are compared as the sorts after the loop leave
\* them, in ascending order.
C21_ClassifierBands ==
    pc = "segments_classified" =>
        /\ horizontal_lines
               = sorted(MeanY(SelectSeq(image.lines, ContributesY)))
        /\ vertical_lines
               = sorted(MeanX(SelectSeq(image.lines, ContributesX)))
        /\ \A i \in 1..Len(image.lines) :
               ~(ContributesY(image.lines[i]) /\ ContributesX(image.lines[i]))

\* C21 witness: of a short segment, one 1.998 degrees from the horizontal,
\* one 1.998 degrees from the vertical and one with x1 = x2, the second has
\* contributed its mean y 11.5 and the last two their mean x 11.5 and 7,
\* which the sort has put in ascending order.
C21_Witness ==
    /\ pc = "segments_classified"
    /\ image.lines = <<<<0, 0, 49, 0>>, <<0, 10, 86, 13>>, <<10, 0, 13, 86>>,
                       <<7, 0, 7, 60>>>>
    /\ horizontal_lines = <<Rat(23, 2)>>
    /\ vertical_lines = <<RInt(7), Rat(23, 2)>>

(***************************************************************************)
(* The scores.                                                             *)
(***************************************************************************)
\* C22: the reported confidence is never below 0.4 * consistency_score +
\* 0.4 * standard_size_score + 0.2 * num_lines_score and equals it when no
\* cells_across range matches; num_lines_score is min(1, (number of
\* horizontal positions + number of vertical positions) / 30).
C22_ConfidenceIsWeightedSum ==
    Detected =>
        /\ RLe(WeightedSum, result.confidence)
        /\ NoOverride(CellsAcross) => result.confidence = WeightedSum
        /\ RAdd(RAdd(Rat(4, 10), Rat(4, 10)), Rat(2, 10)) = RInt(1)
        /\ result.num_lines_score =
               RMin(RInt(1),
                    Rat(Len(result.horizontal_lines)
                        + Len(result.vertical_lines), 30))

\* C22 witness: 32 positions saturate num_lines_score at 1, no range matches
\* and the confidence is the weighted sum, below 0.85.
C22_Witness ==
    /\ Detected
    /\ Len(result.horizontal_lines) + Len(result.vertical_lines) = 32
    /\ result.num_lines_score = RInt(1)
    /\ NoOverride(CellsAcross)
    /\ result.confidence = WeightedSum
    /\ RLt(result.confidence, Rat(85, 100))

\* The least relative distance of the raw size from a standard size.
LeastRelativeDistance(raw) ==
    LET distances == {relative_distance(raw, s) : s \in StandardSizes}
    IN  CHOOSE d \in distances : \A e \in distances : RLe(d, e)

\* The raw size is within 10% of the preferred size 0.1.
NearPreferred(raw) ==
    RLe(RAbs(RSub(raw, Rat(1, 10))), Rat(1, 100))

\* C23: standard_size_score is 1 - |raw - 0.1| / 0.1 when raw_grid_size_m
\* is within 10% of 0.1, and otherwise max(0, 1 - d) for d the least
\* relative distance |raw - s| / s over the standard sizes s.
C23_StandardSizeScore ==
    Detected =>
        result.standard_size_score =
            IF NearPreferred(RawSize)
            THEN RSub(RInt(1), RDiv(RAbs(RSub(RawSize, Rat(1, 10))),
                                    Rat(1, 10)))
            ELSE RMax(RInt(0), RSub(RInt(1), LeastRelativeDistance(RawSize)))

\* C23 witness: a raw size further than 10% from 0.1, nearest another
\* standard size and scored between 0 and 1 by its distance from that size.
C23_Witness ==
    /\ Detected
    /\ ~NearPreferred(RawSize)
    /\ RLt(RInt(0), result.standard_size_score)
    /\ RLt(result.standard_size_score, RInt(1))
    /\ RLt(LeastRelativeDistance(RawSize),
           relative_distance(RawSize, Rat(1, 10)))

\* The relative deviations of the consecutive spacings of the positions
\* from the dominant spacing.
Deviations(positions, dominant) ==
    [i \in 1..(Len(positions) - 1) |->
        RDiv(RAbs(RSub(RSub(positions[i + 1], positions[i]), dominant)),
             dominant)]

\* 1 - min(1, average deviation), for positions with a spacing at least.
AxisScore(positions, dominant) ==
    RSub(RInt(1),
         RMin(RInt(1),
              RDiv(RSum(Deviations(positions, dominant)),
                   RInt(Len(positions) - 1))))

\* C24: consistency_score is the mean of the two axis scores, each 1 -
\* min(1, average of |spacing - dominant| / dominant over the axis's
\* consecutive spacings) for the axis's own dominant spacing, also on an
\* axis whose dominant group was not accepted as a candidate.
C24_ConsistencyIsMeanOfAxes ==
    Detected =>
        result.consistency_score =
            RDiv(RAdd(AxisScore(result.horizontal_lines,
                                result.horizontal_spacing),
                      AxisScore(result.vertical_lines,
                                result.vertical_spacing)),
                 RInt(2))

\* C24 witness: the vertical axis did not contribute its dominant spacing,
\* its average deviation from it is above 1 and capped, and the consistency
\* is half the score of the horizontal axis.
C24_Witness ==
    /\ Detected
    /\ ~Contributes(v_groups, vertical_spacing)
    /\ result.vertical_spacing # result.grid_size_px
    /\ AxisScore(result.vertical_lines, result.vertical_spacing) = RInt(0)
    /\ RLt(RInt(0), result.consistency_score)
    /\ result.consistency_score =
           RDiv(AxisScore(result.horizontal_lines,
                          result.horizontal_spacing), RInt(2))

\* A set_grid_size call that returned for a size s >= 0 is followed by a
\* set_grid_size call on the size it returned.
SetAgain ==
    /\ operation = "set_grid_size"
    /\ raised = ""
    /\ RLe(RInt(0), size_m)
    /\ operation' = "set_grid_size"
    /\ size_m' = returned

\* The second call returns the same size and leaves grid_size as it was.
SameAgain ==
    /\ raised' = ""
    /\ returned' = returned
    /\ grid_service'.grid_size = grid_service.grid_size

\* C25: set_grid_size is idempotent: for every s >= 0, set_grid_size on the
\* size set_grid_size(s) returned returns that size and leaves grid_size
\* unchanged.
C25_Idempotent == [][SetAgain => SameAgain]_vars

\* The extent of the failure: 0.17, a rounded size that lies 15% from a
\* standard size, is the one returned size that a second call changes (to
\* 0.2).
IdempotentBut17 ==
    [][SetAgain =>
           IF returned = Rat(17, 100)
           THEN /\ returned' = Rat(2, 10)
                /\ grid_service'.grid_size = Rat(2, 10)
           ELSE SameAgain]_vars

\* C25 witness: set_grid_size(0.42), 0.42 being a size only a call returns,
\* has returned 0.42.
C25_Witness ==
    /\ operation = "set_grid_size"
    /\ size_m = Rat(42, 100)
    /\ returned = Rat(42, 100)
    /\ grid_service.grid_size = Rat(42, 100)

\* The test has passed the detected grid_size_m to set_grid_size.
Adjusted == pc = "adjusted"

\* C26: set_grid_size returns every detected grid_size_m unchanged.
C26_AcceptedUnchanged ==
    Adjusted => returned = result.grid_size_m

\* raw_grid_size_m is above 0.165 and at most 0.17: detect_grid rounds it to
\* 0.17.
RoundedTo17 ==
    /\ RLt(Rat(165, 1000), RawSize)
    /\ RLe(RawSize, Rat(17, 100))

\* The extent of the failure: only a raw_grid_size_m above 0.165 and at
\* most 0.17, which detect_grid rounds to 0.17, is changed (to 0.2).
AcceptedUnchangedBut17 ==
    Adjusted =>
        IF RoundedTo17
        THEN result.grid_size_m = Rat(17, 100) /\ returned = Rat(2, 10)
        ELSE returned = result.grid_size_m

\* C26 witness: the rounded size 0.16 was detected and passed to
\* set_grid_size, which returned it.
C26_Witness ==
    /\ Adjusted
    /\ result.grid_size_m = Rat(16, 100)
    /\ size_m = Rat(16, 100)
    /\ returned = Rat(16, 100)

\* detect_grid has estimated the spacings of the call (lines 229-240).
ReachedEstimation ==
    \/ pc = "estimated"
    \/ Detected
    \/ Returned /\ FailedWith("No consistent grid spacing found")

AtLeast10(v) == v # <<>> /\ RLe(RInt(10), v)

AllAtLeast10(s) == \A i \in 1..Len(s) : AtLeast10(s[i])

GroupsAtLeast10(groups) ==
    \A i \in 1..Len(groups) :
        AtLeast10(groups[i].rep) /\ AllAtLeast10(groups[i].members)

\* C27: once detect_grid has estimated spacings, every consecutive spacing,
\* every group representative, both dominant spacings and every candidate
\* are at least 10, so no divisor of grouping or of consistency scoring is
\* zero; a detected result has grid_size_px >= 10, the nonzero divisors
\* width and grid_size_px, and cells_across <= width / 10.
C27_SpacingsAtLeast10 ==
    ReachedEstimation =>
        /\ h_spacings # <<>> /\ AllAtLeast10(h_spacings)
        /\ v_spacings # <<>> /\ AllAtLeast10(v_spacings)
        /\ GroupsAtLeast10(h_groups)
        /\ GroupsAtLeast10(v_groups)
        /\ AtLeast10(horizontal_spacing)
        /\ AtLeast10(vertical_spacing)
        /\ AllAtLeast10(grid_candidates)
        /\ Detected =>
               /\ AtLeast10(result.grid_size_px)
               /\ image.width > 0
               /\ result.raw_grid_size_m =
                      RDiv(result.grid_size_px, RInt(image.width))
               /\ result.cells_across =
                      RDiv(RInt(image.width), result.grid_size_px)
               /\ RLe(result.cells_across, Rat(image.width, 10))

\* C27 witness: a line 5 px after its neighbour was dropped, the other axis
\* has a spacing of exactly 10, and the grid was detected.
C27_Witness ==
    /\ Detected
    /\ Len(filtered_horizontal) < Len(horizontal_lines)
    /\ \E i \in 1..Len(v_spacings) : v_spacings[i] = RInt(10)
    /\ AtLeast10(result.grid_size_px)

\* The groups with the largest member count.
LargestGroups ==
    {i \in 1..Len(grouped) :
        \A j \in 1..Len(grouped) :
            Len(grouped[j].members) <= Len(grouped[i].members)}

\* The spacings with the neighbours at k and k + 1 exchanged.  Every order
\* of a list is reached by such exchanges, and every list is a list of the
\* harness.
Exchanged(k) ==
    [i \in 1..Len(spacings) |->
        IF i = k THEN spacings[k + 1]
        ELSE IF i = k + 1 THEN spacings[k]
        ELSE spacings[i]]

\* C28: among the groups that tie for the largest member count,
\* _most_common_value returns the smallest representative, and it returns
\* the same value when two neighbouring spacings are exchanged, hence for
\* the same spacings in any order.
C28_SmallestOfLargestGroups ==
    pc = "grouped" /\ spacings # <<>> =>
        /\ \E i \in LargestGroups :
               /\ most_common = grouped[i].rep
               /\ \A j \in LargestGroups :
                      RLe(grouped[i].rep, grouped[j].rep)
        /\ \A k \in 1..(Len(spacings) - 1) :
               most_common_value(group_similar_values(Exchanged(k)))
                   = most_common

\* C28 witness: the spacings 21, 10, 21, 10 form two groups of two members
\* and the smaller representative, 10, is returned.
C28_Witness ==
    /\ pc = "grouped"
    /\ spacings = <<RInt(21), RInt(10), RInt(21), RInt(10)>>
    /\ Cardinality(LargestGroups) = 2
    /\ most_common = RInt(10)

(***************************************************************************)
(* Properties of ImageHandler.                                             *)
(***************************************************************************)
\* image_list is empty and current_index is -1, or current_index is an
\* index of image_list.
IndexInRange ==
    \/ image_handler.image_list = <<>> /\ image_handler.current_index = -1
    \/ /\ 0 <= image_handler.current_index
       /\ image_handler.current_index < Len(image_handler.image_list)

\* current_image_path is image_list[current_index].
PathIsCurrentEntry ==
    /\ 0 <= image_handler.current_index
    /\ image_handler.current_index < Len(image_handler.image_list)
    /\ image_handler.current_image_path =
           image_handler.image_list[image_handler.current_index + 1]

\* current_pil_image is the image opened from current_image_path.
ImageIsOfPath ==
    /\ image_handler.current_pil_image # NoImageOpen
    /\ image_handler.current_pil_image.path =
           image_handler.current_image_path

\* C29: image_list is empty and current_index is -1, or current_index is an
\* index of image_list; and whenever current_image_path is not None it is
\* image_list[current_index] and current_pil_image is the image opened from
\* it.
C29_CurrentImageConsistent ==
    /\ IndexInRange
    /\ image_handler.current_image_path # "None" =>
           PathIsCurrentEntry /\ ImageIsOfPath

\* C29 witness: load_folder on a directory whose first image opens has
\* returned True with the path and the image of that file.
C29_Witness ==
    /\ handler_call.operation = "load_folder"
    /\ handler_call.argument = "plans"
    /\ handler_call.returned = TRUE
    /\ image_handler.current_image_path = "plans/Plan.PNG"
    /\ PathIsCurrentEntry
    /\ ImageIsOfPath

\* The extent of the failure: the index is always in range, and the path
\* and the image agree with image_list after every call that returned True.
ConsistentAfterSuccess ==
    /\ IndexInRange
    /\ handler_call.operation \in {"load_folder", "load_current_image"}
       /\ handler_call.returned = TRUE
           => PathIsCurrentEntry /\ ImageIsOfPath

\* A whole multiple of 0.1 that is at least 0.1: in lowest terms the
\* denominator divides 10.
TenthsFromOne(v) ==
    /\ is_finite(v)
    /\ RLe(Rat(1, 10), v)
    /\ 10 % v[2] = 0

\* Every attribute but image_height_m keeps its value in the step.
OnlyHeightChanges ==
    image_handler' =
        [image_handler EXCEPT !.image_height_m = image_handler'.image_height_m]

\* C30: image_width_m is 1.0 and image_height_m is a whole multiple of 0.1
\* that is at least 0.1, after every sequence of calls; and a
\* set_image_height call changes no attribute but image_height_m.
C30_PhysicalSize ==
    /\ [](/\ image_handler.image_width_m = RInt(1)
          /\ TenthsFromOne(image_handler.image_height_m))
    /\ [][handler_call'.operation = "set_image_height" => OnlyHeightChanges]_vars

\* C30 witness: an image 100 times as wide as high was loaded (0.01 rounds
\* to 0 and is raised to 0.1) and set_image_height(7.77) then stored 7.8.
C30_Witness ==
    /\ image_handler.current_pil_image.size = <<1000, 10>>
    /\ handler_call.operation = "set_image_height"
    /\ handler_call.argument = Rat(777, 100)
    /\ image_handler.image_height_m = Rat(78, 10)
    /\ image_handler.image_width_m = RInt(1)

=============================================================================
